---- MODULE Spec2Model ----
(***************************************************************************)
(* A model of the rsorth runtime: the value model, the contextual          *)
(* dictionary and variable list, the value stack, the built-in words and   *)
(* the bytecode interpreter loop (execute_code) with word dispatch.        *)
(***************************************************************************)
EXTENDS Integers, Sequences, FiniteSets, TLC

VARIABLES
    stack,              \* SorthInterpreter.stack: the value stack
    heap,               \* the Rc<RefCell<..>> cells of arrays and data objects
    variables,          \* SorthInterpreter.variables: ContextualList<Value>
    dictionary,         \* SorthInterpreter.dictionary: stack of sub-dictionaries
    word_handlers,      \* SorthInterpreter.word_handlers: ContextualList
    data_definitions,   \* SorthInterpreter.data_definitions (scope depth only)
    call_stack,         \* SorthInterpreter.call_stack
    current_location,   \* SorthInterpreter.current_location
    constructors,       \* SorthInterpreter.constructors: the compile contexts
    search_paths,       \* SorthInterpreter.search_paths: directories, newest last
    frames,             \* the active execute_code invocations, innermost last
    status,             \* "running", "done", "error" or "panicked"
    last,               \* record of the last completed operation
    pair                \* what a specification records beside the step

vars == << stack, heap, variables, dictionary, word_handlers, data_definitions,
           call_stack, current_location, constructors, search_paths, frames,
           status, last, pair >>

\* ---------------------------------------------------------------- bounds

MaxCode == 3
MaxBody == 3
MaxStack == 2
MaxHeap == 2
MaxArgs == 3

\* ----------------------------------------------------------- value model

NoneV == [t |-> "None", v |-> 0]
IntV(i) == [t |-> "Int", v |-> i]
\* A Float carries its value in halves: FloatV(3) is 1.5.
FloatV(h) == [t |-> "Float", v |-> h]
BoolV(b) == [t |-> "Bool", v |-> IF b THEN 1 ELSE 0]
StrV(s) == [t |-> "String", s |-> s]
VecV(p) == [t |-> "Vec", v |-> p]
ObjV(p) == [t |-> "DataObject", v |-> p]
CodeV(c) == [t |-> "Code", code |-> c]
\* Value::Token: a Number token carries an Int or a Float (NumberType), a
\* String or a Word token its text.
NumberToken(num) == [t |-> "Token", kind |-> "Number", num |-> num]
StringToken(s) == [t |-> "Token", kind |-> "String", s |-> s]
WordToken(s) == [t |-> "Token", kind |-> "Word", s |-> s]

is_int(v) == v.t = "Int"
is_float(v) == v.t = "Float"
is_bool(v) == v.t = "Bool"
is_string(v) == v.t = "String"
is_vec(v) == v.t = "Vec"
is_data_object(v) == v.t = "DataObject"
is_code(v) == v.t = "Code"

is_numeric(v) ==
    \/ v.t \in {"None", "Int", "Float", "Bool"}
    \/ (v.t = "Token" /\ v.kind = "Number")
both_are_numeric(a, b) == is_numeric(a) /\ is_numeric(b)
either_is_int(a, b) == is_int(a) \/ is_int(b)
either_is_float(a, b) == is_float(a) \/ is_float(b)
either_is_bool(a, b) == is_bool(a) \/ is_bool(b)
either_is_string(a, b) == is_string(a) \/ is_string(b)

is_stringable(v) ==
    \/ v.t \in {"None", "Int", "Float", "String"}
    \/ (v.t = "Token" /\ v.kind \in {"String", "Word"})

\* Truncation toward zero of a value given in halves (f64 as i64).
TruncHalves(h) == IF h >= 0 THEN h \div 2 ELSE -((-h) \div 2)

get_int_val(v) ==
    CASE v.t = "None" -> 0
      [] v.t = "Int" -> v.v
      [] v.t = "Float" -> TruncHalves(v.v)
      [] v.t = "Bool" -> v.v
      [] v.t = "Token" -> IF v.num.t = "Int" THEN v.num.v
                          ELSE TruncHalves(v.num.v)

\* The f64 value, in halves.
get_float_val(v) ==
    CASE v.t = "None" -> 0
      [] v.t = "Int" -> 2 * v.v
      [] v.t = "Float" -> v.v
      [] v.t = "Bool" -> 2 * v.v
      [] v.t = "Token" -> IF v.num.t = "Int" THEN 2 * v.num.v ELSE v.num.v

get_bool_val(v) ==
    CASE v.t = "None" -> FALSE
      [] v.t = "Int" -> v.v # 0
      [] v.t = "Float" -> v.v # 0
      [] v.t = "Bool" -> v.v = 1
      [] v.t = "String" -> v.s # ""
      [] OTHER -> TRUE

FloatStr(h) ==
    IF h % 2 = 0 THEN ToString(h \div 2)
    ELSE (IF h < 0 THEN "-" ELSE "") \o
         ToString((IF h < 0 THEN -h ELSE h) \div 2) \o ".5"

get_string_val(v) ==
    CASE v.t = "None" -> ""
      [] v.t = "Int" -> ToString(v.v)
      [] v.t = "Float" -> FloatStr(v.v)
      [] v.t = "String" -> v.s
      [] v.t = "Token" -> v.s

\* ------------------------------------------------------------------ heap

VecCell(items) == [kind |-> "Vec", def |-> "", items |-> items]
ObjCell(def, fields) == [kind |-> "DataObject", def |-> def, items |-> fields]

RECURSIVE deep_clone(_, _)
RECURSIVE deep_clone_all(_, _, _)

\* Clones the values of a sequence left to right, threading the heap.
deep_clone_all(vals, done, h) ==
    IF vals = << >> THEN [vals |-> done, heap |-> h]
    ELSE LET r == deep_clone(Head(vals), h)
         IN deep_clone_all(Tail(vals), Append(done, r.val), r.heap)

\* deep_clone of a value: the new value and the heap with the new cells.
deep_clone(v, h) ==
    IF v.t \in {"Vec", "DataObject"}
    THEN LET cell == h[v.v]
             r == deep_clone_all(cell.items, << >>, h)
             new == Len(r.heap) + 1
         IN [val |-> [t |-> v.t, v |-> new],
             heap |-> Append(r.heap, [cell EXCEPT !.items = r.vals])]
    ELSE [val |-> v, heap |-> h]


\* PartialEq for Value, ValueVec and DataObject.
RECURSIVE ValueEq(_, _, _)
RECURSIVE SeqEq(_, _, _)

\* Element-wise equality of two value sequences (VecDeque's PartialEq).
SeqEq(xs, ys, h) ==
    /\ Len(xs) = Len(ys)
    /\ \A i \in 1..Len(xs) : ValueEq(xs[i], ys[i], h)

ValueEq(self, other, h) ==
    IF both_are_numeric(self, other)
    THEN IF either_is_float(self, other)
         THEN LET a == get_float_val(self)
                  b == get_float_val(self)
              IN a = b
         ELSE IF either_is_int(self, other)
         THEN LET a == get_int_val(self)
                  b == get_int_val(self)
              IN a = b
         ELSE IF either_is_bool(self, other)
         THEN get_bool_val(self) = get_bool_val(other)
         ELSE FALSE
    ELSE IF is_stringable(self) /\ is_stringable(other)
    THEN get_string_val(self) = get_string_val(other)
    ELSE IF is_vec(self) /\ is_vec(other)
    THEN SeqEq(h[self.v].items, h[other.v].items, h)
    ELSE IF is_data_object(self) /\ is_data_object(other)
    THEN /\ h[self.v].def = h[other.v].def
         /\ \A i \in 1..Len(h[self.v].items) :
                ValueEq(h[self.v].items[i], h[other.v].items[i], h)
    ELSE IF self.t = "Token" /\ other.t = "Token"
    THEN self = other
    ELSE FALSE

\* A hash map value refers to a heap cell that holds a ValueHash: the
\* function from its keys to their values.
HashV(p) == [t |-> "HashMap", v |-> p]
is_hash_map(v) == v.t = "HashMap"
HashCell(values) == [kind |-> "Hash", def |-> "", items |-> values]

\* PartialEq for ValueHash: every entry of self is looked up in other.
ValueHashEq(self, other, h) ==
    \A key \in DOMAIN self :
        /\ key \in DOMAIN other
        /\ ValueEq(other[key], self[key], h)

\* --------------------------------------------------------- byte buffer

\* A byte buffer value refers to a heap cell that holds a ByteBuffer: its
\* bytes and its cursor.
BufferV(p) == [t |-> "ByteBuffer", v |-> p]
is_byte_buffer(v) == v.t = "ByteBuffer"
ByteBuffer(buffer, current_position) ==
    [buffer |-> buffer, current_position |-> current_position]
BufferCell(bb) == [kind |-> "Buffer", def |-> "", items |-> bb]

BufferOk(bb, val) == [kind |-> "ok", bb |-> bb, val |-> val]
BufferPanic(bb) == [kind |-> "panic", bb |-> bb, val |-> 0]

RECURSIVE Pow256(_)
Pow256(k) == IF k = 0 THEN 1 ELSE 256 * Pow256(k - 1)

\* Byte k (from 0) of the two's complement form of an i64 of a magnitude
\* below 2^31.
RECURSIVE LeByte(_, _)
LeByte(value, k) ==
    IF value < 0 THEN 255 - LeByte(-value - 1, k)
    ELSE IF k < 4 THEN (value \div Pow256(k)) % 256
    ELSE 0

to_le_bytes(value) == [k \in 1..8 |-> LeByte(value, k - 1)]

\* The number a little endian byte sequence stands for, as an unsigned and
\* as a two's complement integer.
RECURSIVE LeSum(_, _)
LeSum(bytes, i) ==
    IF i > Len(bytes) THEN 0
    ELSE (IF bytes[i] = 0 THEN 0 ELSE bytes[i] * Pow256(i - 1))
         + LeSum(bytes, i + 1)

unsigned_from_le_bytes(bytes) == LeSum(bytes, 1)
signed_from_le_bytes(bytes) ==
    IF bytes[Len(bytes)] >= 128
    THEN -LeSum([i \in 1..Len(bytes) |-> 255 - bytes[i]], 1) - 1
    ELSE LeSum(bytes, 1)

\* buffer[position..position + Len(bytes)].copy_from_slice(bytes)
copy_from_slice(buffer, position, bytes) ==
    [i \in 1..Len(buffer) |->
        IF i > position /\ i <= position + Len(bytes)
        THEN bytes[i - position] ELSE buffer[i]]

set_position(bb, position) ==
    IF position > Len(bb.buffer) THEN BufferPanic(bb)
    ELSE BufferOk([bb EXCEPT !.current_position = position], 0)

increment_position(bb, increment) ==
    set_position(bb, bb.current_position + increment)

write_int(bb, byte_size, value) ==
    IF byte_size \notin {1, 2, 4, 8} THEN BufferPanic(bb)
    ELSE IF increment_position(bb, byte_size).kind # "ok"
    THEN BufferPanic(bb)
    ELSE BufferOk([increment_position(bb, byte_size).bb EXCEPT
                      !.buffer = copy_from_slice(@, bb.current_position,
                                     SubSeq(to_le_bytes(value), 1, byte_size))],
                  0)

\* A read of one byte takes the byte as it is, whatever is_signed says; u64
\* as i64 is the two's complement value.
read_int(bb, byte_size, is_signed) ==
    LET position == bb.current_position
        bytes == SubSeq(bb.buffer, position + 1, position + byte_size)
        next == increment_position(bb, byte_size)
    IN IF next.kind # "ok" THEN BufferPanic(bb)
       ELSE IF byte_size = 1 THEN BufferOk(next.bb, bytes[1])
       ELSE IF byte_size \in {2, 4}
       THEN BufferOk(next.bb, IF is_signed THEN signed_from_le_bytes(bytes)
                              ELSE unsigned_from_le_bytes(bytes))
       ELSE IF byte_size = 8
       THEN BufferOk(next.bb, signed_from_le_bytes(bytes))
       ELSE BufferPanic(next.bb)

\* The bytes of an f64 and of the f32 nearest to it, for the Floats 0.0,
\* 1.0, 1.5 and -1.0 (in halves: 0, 2, 3, -2).
float_to_le_bytes(byte_size, value) ==
    IF byte_size = 8
    THEN << 0, 0, 0, 0, 0, 0 >> \o
         (CASE value = 0 -> << 0, 0 >>
            [] value = 2 -> << 240, 63 >>
            [] value = 3 -> << 248, 63 >>
            [] value = -2 -> << 240, 191 >>)
    ELSE << 0, 0 >> \o
         (CASE value = 0 -> << 0, 0 >>
            [] value = 2 -> << 128, 63 >>
            [] value = 3 -> << 192, 63 >>
            [] value = -2 -> << 128, 191 >>)

write_float(bb, byte_size, value) ==
    IF byte_size \notin {4, 8} THEN BufferPanic(bb)
    ELSE IF increment_position(bb, byte_size).kind # "ok"
    THEN BufferPanic(bb)
    ELSE BufferOk([increment_position(bb, byte_size).bb EXCEPT
                      !.buffer = copy_from_slice(@, bb.current_position,
                                     float_to_le_bytes(byte_size, value))],
                  0)

Min(a, b) == IF a < b THEN a ELSE b

\* The loop after the copy writes max_size - write_bytes zero bytes from
\* `position` on.
write_string(bb, max_size, value) ==
    LET write_bytes == Min(Len(value), max_size)
        position == bb.current_position
        next == increment_position(bb, max_size)
        copied == copy_from_slice(bb.buffer, position,
                                  SubSeq(value, 1, write_bytes))
    IN IF next.kind # "ok" THEN BufferPanic(bb)
       ELSE BufferOk([next.bb EXCEPT !.buffer =
                         IF write_bytes < max_size
                         THEN copy_from_slice(copied, position,
                                  [i \in 1..(max_size - write_bytes) |-> 0])
                         ELSE copied],
                     0)

\* The bytes up to the first zero byte.
RECURSIVE UpToZero(_)
UpToZero(bytes) ==
    IF bytes = << >> \/ Head(bytes) = 0 THEN << >>
    ELSE << Head(bytes) >> \o UpToZero(Tail(bytes))

read_string(bb, max_size) ==
    LET position == bb.current_position
        next == increment_position(bb, max_size)
    IN IF next.kind # "ok" THEN BufferPanic(bb)
       ELSE BufferOk(next.bb,
                     UpToZero(SubSeq(bb.buffer, position + 1,
                                     position + max_size)))

\* ------------------------------------------------------- contextual list

SubList(start_index) == [items |-> << >>, start_index |-> start_index]

CL_top(l) == l[Len(l)]

CL_len(l) ==
    IF l # << >> THEN CL_top(l).start_index + Len(CL_top(l).items) ELSE 0

\* Every sub-list starts at index 0.
CL_mark_context_restarts(l) == Append(l, SubList(0))
CL_mark_context(l) == Append(l, SubList(CL_len(l)))

\* release_context panics when no context or only the last one is left.
CL_release_panics(l) == Len(l) <= 1

CL_release_context(l) == SubSeq(l, 1, Len(l) - 1)

CL_new == CL_mark_context(<< >>)

CL_insert(l, value) == [l EXCEPT ![Len(l)].items = Append(@, value)]

\* The sub-list Index::index picks: the topmost one that starts at or below
\* the index (the list stack is searched in reverse).
CL_find(l, index) ==
    CHOOSE k \in 1..Len(l) :
        /\ index >= l[k].start_index
        /\ \A j \in (k + 1)..Len(l) : index < l[j].start_index

CL_index_panics(l, index) ==
    \/ index >= CL_len(l)
    \/ ~ \E k \in 1..Len(l) : index >= l[k].start_index
    \/ index - l[CL_find(l, index)].start_index >=
           Len(l[CL_find(l, index)].items)

CL_index(l, index) ==
    LET k == CL_find(l, index)
    IN l[k].items[index - l[k].start_index + 1]

CL_index_mut(l, index, value) ==
    LET k == CL_find(l, index)
    IN [l EXCEPT ![k].items[index - l[k].start_index + 1] = value]

\* ------------------------------------------------------------ dictionary

SubDictionary == [n \in {} |-> 0]

Dictionary_mark_context(d) == Append(d, SubDictionary)

Dictionary_release_panics(d) == Len(d) <= 1

Dictionary_release_context(d) == SubSeq(d, 1, Len(d) - 1)

Dictionary_new == Dictionary_mark_context(<< >>)

Dictionary_insert(d, name, info) ==
    [d EXCEPT ![Len(d)] = (name :> info) @@ @]

Dictionary_has(d, name) == \E k \in 1..Len(d) : name \in DOMAIN d[k]

\* try_get searching the sub-dictionaries bottom-up.
Dictionary_try_get_outermost(d, name) ==
    LET k == CHOOSE k \in 1..Len(d) :
                 /\ name \in DOMAIN d[k]
                 /\ \A j \in 1..(k - 1) : name \notin DOMAIN d[j]
    IN d[k][name]

\* try_get: the sub-dictionaries are searched top-down, first hit wins.
Dictionary_try_get(d, name) ==
    LET k == CHOOSE k \in 1..Len(d) :
                 /\ name \in DOMAIN d[k]
                 /\ \A j \in (k + 1)..Len(d) : name \notin DOMAIN d[j]
    IN d[k][name]

WordInfo(name, handler_index) ==
    [name |-> name, handler_index |-> handler_index, runtime |-> "Normal"]

\* -------------------------------------------------- errors and locations

NoLoc == 0
DefaultLoc == -1
NoErr == [location |-> NoLoc, error |-> "", call_stack |-> << >>]

\* Display for SourceLocation.
LocStr(l) ==
    IF l = DefaultLoc THEN "unspecified (1, 1)"
    ELSE "src (" \o ToString(l) \o ", 1)"

CallItem(word, location) == [location |-> location, word |-> word]

RECURSIVE TraceStr(_)
\* The call-stack part of Display for ScriptError, innermost entry first.
TraceStr(cs) ==
    IF cs = << >> THEN ""
    ELSE "  " \o LocStr(cs[Len(cs)].location) \o ": " \o cs[Len(cs)].word
         \o "\n" \o TraceStr(SubSeq(cs, 1, Len(cs) - 1))

\* Display for ScriptError (to_string).
ErrToString(e) ==
    (IF e.location # NoLoc THEN LocStr(e.location) \o ": " ELSE "")
    \o e.error \o "\n\nCall stack\n" \o TraceStr(e.call_stack)

\* script_error: the message with the current location and call stack.
script_error(I, message) ==
    [location |-> I.current_location, error |-> message,
     call_stack |-> I.call_stack]

Ok(I) == [kind |-> "ok", I |-> I, err |-> NoErr]
Err(I, message) == [kind |-> "err", I |-> I, err |-> script_error(I, message)]
Panic(I) == [kind |-> "panic", I |-> I, err |-> NoErr]


\* ----------------------------------------------------------- tokenizing

\* A text is a sequence of characters; each character is written by its
\* name.
Char_quote == "quote"
Char_backslash == "backslash"
Char_newline == "newline"
Char_return == "return"
Char_tab == "tab"
Char_space == "space"
Char_star == "*"

\* Value::stringify.
RECURSIVE stringify_chars(_)
stringify_chars(text) ==
    IF text = << >> THEN << >>
    ELSE (CASE Head(text) = Char_quote -> << Char_backslash, Char_quote >>
            [] Head(text) = Char_newline -> << Char_backslash, "n" >>
            [] Head(text) = Char_return -> << Char_backslash, "r" >>
            [] Head(text) = Char_tab -> << Char_backslash, "t" >>
            [] Head(text) = Char_backslash -> << Char_backslash >>
            [] OTHER -> << Head(text) >>)
         \o stringify_chars(Tail(text))

stringify(text) == << Char_quote >> \o stringify_chars(text) \o << Char_quote >>

\* SourceBuffer: the characters not yet read and the location of the next.
SourceBuffer(source) == [chars |-> source, line |-> 1, column |-> 1]
peek_next(buffer) ==
    IF buffer.chars = << >> THEN "" ELSE Head(buffer.chars)
next(buffer) ==
    IF buffer.chars = << >> THEN buffer
    ELSE IF Head(buffer.chars) = Char_newline
    THEN [chars |-> Tail(buffer.chars), line |-> buffer.line + 1,
          column |-> 1]
    ELSE [buffer EXCEPT !.chars = Tail(@), !.column = @ + 1]

TokenOk(buffer, text) ==
    [kind |-> "ok", buffer |-> buffer, text |-> text, err |-> NoErr]
TokenErr(buffer, location, message) ==
    [kind |-> "err", buffer |-> buffer, text |-> << >>,
     err |-> [location |-> location, error |-> message,
              call_stack |-> << >>]]
TokenPanic(buffer) ==
    [kind |-> "panic", buffer |-> buffer, text |-> << >>, err |-> NoErr]
Location(buffer) == [line |-> buffer.line, column |-> buffer.column]

is_whitespace(char) ==
    char \in {Char_space, Char_tab, Char_return, Char_newline}

RECURSIVE skip_whitespace(_)
skip_whitespace(buffer) ==
    IF buffer.chars # << >> /\ is_whitespace(peek_next(buffer))
    THEN skip_whitespace(next(buffer))
    ELSE buffer

\* The buffer is at a backslash. The arm for 0 parses an empty string as a
\* char, which fails.
process_literal(location, buffer) ==
    LET char == peek_next(next(buffer))
        rest == next(next(buffer))
    IN IF next(buffer).chars = << >>
       THEN TokenErr(rest, location,
                     "Unexpected end of file in string literal.")
       ELSE IF char = "n" THEN TokenOk(rest, << Char_newline >>)
       ELSE IF char = "r" THEN TokenOk(rest, << Char_return >>)
       ELSE IF char = "t" THEN TokenOk(rest, << Char_tab >>)
       ELSE IF char = "0"
       THEN TokenErr(rest, location,
                     "Failed to parse numeric literal from ''.")
       ELSE TokenOk(rest, << char >>)

RECURSIVE skip_whitespace_until_column(_, _)
skip_whitespace_until_column(buffer, target_column) ==
    IF /\ buffer.chars # << >>
       /\ is_whitespace(peek_next(buffer))
       /\ buffer.column < target_column
    THEN skip_whitespace_until_column(next(buffer), target_column)
    ELSE buffer

\* The loop of process_multi_line_string; it ends without an error when the
\* buffer ends.
RECURSIVE multi_line_chars(_, _, _, _)
multi_line_chars(location, buffer, target_column, text) ==
    IF buffer.chars = << >> THEN TokenOk(buffer, text)
    ELSE IF peek_next(buffer) = Char_star
    THEN IF next(buffer).chars = << >>
         THEN TokenErr(next(buffer), location,
                       "Unexpected end of file in string literal.")
         ELSE IF peek_next(next(buffer)) = Char_quote
         THEN TokenOk(next(next(buffer)), text)
         ELSE multi_line_chars(location, next(buffer), target_column,
                               Append(text, Char_star))
    \* the loop has read the backslash, and process_literal asserts that
    \* the character it reads is one
    ELSE IF peek_next(buffer) = Char_backslash
    THEN IF peek_next(next(buffer)) # Char_backslash
         THEN TokenPanic(next(buffer))
         ELSE IF process_literal(location, next(buffer)).kind # "ok"
         THEN process_literal(location, next(buffer))
         ELSE multi_line_chars(location,
                  process_literal(location, next(buffer)).buffer,
                  target_column,
                  text \o process_literal(location, next(buffer)).text)
    ELSE IF peek_next(buffer) = Char_newline
    THEN LET skipped == skip_whitespace_until_column(next(buffer),
                                                     target_column)
         IN IF skipped.chars = << >>
            THEN TokenErr(skipped, location,
                          "Unexpected end of file in string literal.")
            ELSE multi_line_chars(location, skipped, target_column,
                     Append(text, Char_newline)
                     \o [i \in 1..(skipped.line - next(buffer).line)
                            |-> Char_newline])
    ELSE multi_line_chars(location, next(buffer), target_column,
                          Append(text, peek_next(buffer)))

\* The buffer is at the star that follows the opening quote.
process_multi_line_string(location, buffer) ==
    multi_line_chars(location, skip_whitespace(next(buffer)),
                     skip_whitespace(next(buffer)).column, << >>)

\* The loop of process_string and what follows it: the closing quote is
\* read, or the buffer has ended.
RECURSIVE string_chars(_, _, _)
string_chars(location, buffer, text) ==
    IF buffer.chars = << >>
    THEN TokenErr(buffer, location,
                  "Unexpected end of file in string literal.")
    ELSE IF peek_next(buffer) = Char_quote THEN TokenOk(next(buffer), text)
    ELSE IF peek_next(buffer) = Char_newline
    THEN TokenErr(buffer, location, "Unexpected new line in string literal.")
    ELSE IF peek_next(buffer) = Char_backslash
    THEN IF process_literal(location, buffer).kind # "ok"
         THEN process_literal(location, buffer)
         ELSE string_chars(location, process_literal(location, buffer).buffer,
                           text \o process_literal(location, buffer).text)
    ELSE string_chars(location, next(buffer),
                      Append(text, peek_next(buffer)))

\* The buffer is at the opening quote.
process_string(buffer) ==
    IF peek_next(next(buffer)) = Char_star
    THEN process_multi_line_string(Location(next(buffer)), next(buffer))
    ELSE string_chars(Location(next(buffer)), next(buffer), << >>)

RECURSIVE process_until_whitespace(_, _)
process_until_whitespace(buffer, text) ==
    IF buffer.chars # << >> /\ ~ is_whitespace(peek_next(buffer))
    THEN process_until_whitespace(next(buffer),
                                  Append(text, peek_next(buffer)))
    ELSE TokenOk(buffer, text)

\* is_number and to_numeric on texts of the letters a and n, the digit 0
\* and the other characters named above: a and 0 are hexadecimal digits, and
\* only a text of digits parses as an i64.
is_number(text) ==
    /\ text # << >>
    /\ \A i \in 1..Len(text) : text[i] \in {"a", "0"}
to_numeric_parses(text) == \A i \in 1..Len(text) : text[i] = "0"

TextToken(kind, text) == [kind |-> kind, text |-> text]

\* The token for a text that was not a string literal.
next_token(text) ==
    IF is_number(text) /\ to_numeric_parses(text)
    THEN [kind |-> "Number", text |-> text, num |-> IntV(0)]
    ELSE TextToken("Word", text)

\* The loop of tokenize_from_source: the tokens read so far, or the error.
RECURSIVE tokenize_loop(_, _)
tokenize_loop(buffer, token_list) ==
    IF buffer.chars = << >>
    THEN [kind |-> "ok", tokens |-> token_list, err |-> NoErr]
    ELSE IF is_whitespace(peek_next(buffer))
    THEN tokenize_loop(skip_whitespace(buffer), token_list)
    ELSE IF peek_next(buffer) = Char_quote
    THEN IF process_string(buffer).kind # "ok"
         THEN [kind |-> process_string(buffer).kind, tokens |-> << >>,
               err |-> process_string(buffer).err]
         ELSE tokenize_loop(process_string(buffer).buffer,
                            Append(token_list,
                                   TextToken("String",
                                             process_string(buffer).text)))
    ELSE tokenize_loop(process_until_whitespace(buffer, << >>).buffer,
                       Append(token_list,
                              next_token(process_until_whitespace(
                                             buffer, << >>).text)))

tokenize_from_source(source) == tokenize_loop(SourceBuffer(source), << >>)

\* ----------------------------------------------------- interpreter state

\* "value as usize" of a negative i64 lies beyond every length; UsizeMod
\* stands for 2^64.
UsizeMod == 1000000
AsUsize(i) == IF i < 0 THEN UsizeMod + i ELSE i

\* The interpreter's fields as one record.
Cur ==
    [stack |-> stack, heap |-> heap, variables |-> variables,
     dictionary |-> dictionary, word_handlers |-> word_handlers,
     data_definitions |-> data_definitions, call_stack |-> call_stack,
     current_location |-> current_location, constructors |-> constructors, search_paths |-> search_paths]

SetCur(I) ==
    /\ stack' = I.stack
    /\ heap' = I.heap
    /\ variables' = I.variables
    /\ dictionary' = I.dictionary
    /\ word_handlers' = I.word_handlers
    /\ data_definitions' = I.data_definitions
    /\ call_stack' = I.call_stack
    /\ current_location' = I.current_location
    /\ constructors' = I.constructors
    /\ search_paths' = I.search_paths

push(I, value) == [I EXCEPT !.stack = Append(@, value)]

pop(I) ==
    IF I.stack = << >>
    THEN [kind |-> "err", I |-> I, err |-> script_error(I, "Stack underflow."),
          val |-> NoneV]
    ELSE [kind |-> "ok", I |-> [I EXCEPT !.stack = SubSeq(@, 1, Len(@) - 1)],
          err |-> NoErr, val |-> I.stack[Len(I.stack)]]

pop_as_int(I) ==
    LET r == pop(I)
    IN IF r.kind # "ok" THEN [r EXCEPT !.val = 0]
       ELSE IF ~ is_numeric(r.val)
       THEN [kind |-> "err", I |-> r.I, val |-> 0,
             err |-> script_error(r.I, "Expected numeric value.")]
       ELSE [r EXCEPT !.val = get_int_val(r.val)]

pop_as_usize(I) ==
    LET r == pop_as_int(I) IN [r EXCEPT !.val = AsUsize(r.val)]

pop_as_bool(I) ==
    LET r == pop(I)
    IN IF r.kind # "ok" THEN [r EXCEPT !.val = FALSE]
       ELSE IF ~ is_numeric(r.val)
       THEN [kind |-> "err", I |-> r.I, val |-> FALSE,
             err |-> script_error(r.I, "Expected boolean value.")]
       ELSE [r EXCEPT !.val = get_bool_val(r.val)]

pop_as_float(I) ==
    LET r == pop(I)
    IN IF r.kind # "ok" THEN [r EXCEPT !.val = 0]
       ELSE IF ~ is_numeric(r.val)
       THEN [kind |-> "err", I |-> r.I, val |-> 0,
             err |-> script_error(r.I, "Expected numeric value.")]
       ELSE [r EXCEPT !.val = get_float_val(r.val)]

pop_as_string(I) ==
    LET r == pop(I)
    IN IF r.kind # "ok" THEN [r EXCEPT !.val = ""]
       ELSE IF ~ is_stringable(r.val)
       THEN [kind |-> "err", I |-> r.I, val |-> "",
             err |-> script_error(r.I, "Expected a string value.")]
       ELSE [r EXCEPT !.val = get_string_val(r.val)]

pop_as_array(I) ==
    LET r == pop(I)
    IN IF r.kind # "ok" THEN [r EXCEPT !.val = 0]
       ELSE IF ~ is_vec(r.val)
       THEN [kind |-> "err", I |-> r.I, val |-> 0,
             err |-> script_error(r.I, "Expected an array.")]
       ELSE [r EXCEPT !.val = r.val.v]

pop_as_hash_map(I) ==
    LET r == pop(I)
    IN IF r.kind # "ok" THEN [r EXCEPT !.val = 0]
       ELSE IF ~ is_hash_map(r.val)
       THEN [kind |-> "err", I |-> r.I, val |-> 0,
             err |-> script_error(r.I, "Expected a hash map.")]
       ELSE [r EXCEPT !.val = r.val.v]

pop_as_byte_buffer(I) ==
    LET r == pop(I)
    IN IF r.kind # "ok" THEN [r EXCEPT !.val = 0]
       ELSE IF ~ is_byte_buffer(r.val)
       THEN [kind |-> "err", I |-> r.I, val |-> 0,
             err |-> script_error(r.I, "Expected a byte buffer.")]
       ELSE [r EXCEPT !.val = r.val.v]

\* SorthInterpreter::pick: Vec::remove(index), which counts from the bottom
\* of the stack and panics on an index that is out of bounds.
pick(I, index) ==
    IF index >= Len(I.stack)
    THEN [kind |-> "panic", I |-> I, err |-> NoErr, val |-> NoneV]
    ELSE [kind |-> "ok", err |-> NoErr, val |-> I.stack[index + 1],
          I |-> [I EXCEPT !.stack = SubSeq(@, 1, index)
                                    \o SubSeq(@, index + 2, Len(@))]]

\* SorthInterpreter::push_to: pop, then Vec::insert(index, value), which
\* panics when index > len.
push_to(I, index) ==
    IF I.stack = << >> THEN Err(I, "Stack underflow.")
    ELSE LET value == I.stack[Len(I.stack)]
             rest == SubSeq(I.stack, 1, Len(I.stack) - 1)
         IN IF index > Len(rest) THEN Panic(I)
            ELSE Ok([I EXCEPT !.stack = SubSeq(rest, 1, index) \o << value >>
                                        \o SubSeq(rest, index + 1, Len(rest))])

\* ContextualData for SorthInterpreter.
mark_context(I) ==
    [I EXCEPT !.dictionary = Dictionary_mark_context(@),
              !.word_handlers = CL_mark_context(@),
              !.data_definitions = CL_mark_context(@),
              !.variables = CL_mark_context(@)]

release_panics(I) ==
    \/ Dictionary_release_panics(I.dictionary)
    \/ CL_release_panics(I.word_handlers)
    \/ CL_release_panics(I.data_definitions)
    \/ CL_release_panics(I.variables)

release_context(I) ==
    [I EXCEPT !.dictionary = Dictionary_release_context(@),
              !.word_handlers = CL_release_context(@),
              !.data_definitions = CL_release_context(@),
              !.variables = CL_release_context(@)]

\* The handlers a word can have.
Handler(kind, fn, index, value, code) ==
    [kind |-> kind, fn |-> fn, index |-> index, value |-> value, code |-> code]
NativeHandler(fn) == Handler("native", fn, 0, NoneV, << >>)
VariableHandler(index) == Handler("variable", "", index, NoneV, << >>)
ConstantHandler(value) == Handler("constant", "", 0, value, << >>)
ScriptFunction(code) == Handler("script", "", 0, NoneV, code)

WordHandlerInfo(name, handler) == [name |-> name, handler |-> handler]

\* add_word: the handler goes to the handler list, the name to the top
\* sub-dictionary with the handler's index.
add_word_at(I, name, handler, index) ==
    [I EXCEPT !.word_handlers = CL_insert(@, WordHandlerInfo(name, handler)),
              !.dictionary = Dictionary_insert(@, name, WordInfo(name, index))]

add_word(I, name, handler) ==
    add_word_at(I, name, handler, CL_len(I.word_handlers))

call_stack_push(I, name, location) ==
    [I EXCEPT !.call_stack = Append(@, CallItem(name, location))]

call_stack_pop(I) ==
    IF I.call_stack = << >> THEN Err(I, "Call stack underflow.")
    ELSE Ok([I EXCEPT !.call_stack = SubSeq(@, 1, Len(@) - 1)])

\* Display for Value, as far as error messages need it.
ValueStr(v) ==
    CASE v.t = "None" -> "none"
      [] v.t = "Bool" -> IF v.v = 1 THEN "true" ELSE "false"
      [] v.t \in {"Int", "Float", "String"} -> get_string_val(v)


\* ---------------------------------------------------------- native words

\* i64 division truncates toward zero.
IntDiv(a, b) ==
    LET q == (IF a < 0 THEN -a ELSE a) \div (IF b < 0 THEN -b ELSE b)
    IN IF (a < 0) = (b < 0) THEN q ELSE -q

\* f64 division on values in halves; a zero divisor gives an infinity or NaN.
PosInf == 2000000
NegInf == -2000000
NaN == 3000000
FloatExact(a, b) == b = 0 \/ (2 * a) % b = 0
FloatDiv(a, b) ==
    IF b = 0 THEN (IF a > 0 THEN PosInf ELSE IF a < 0 THEN NegInf ELSE NaN)
    ELSE IntDiv(2 * a, b)

\* get_int_val and get_float_val panic on a value that is not numeric.
conversion_panics(v) == ~ is_numeric(v)

\* math_op with the closures of word_divide.
word_divide(I) ==
    LET divide(I1, a, b) ==
            IF either_is_float(a, b)
            THEN IF conversion_panics(a) \/ conversion_panics(b) THEN Panic(I1)
                 ELSE Ok(push(I1, FloatV(FloatDiv(get_float_val(a),
                                                  get_float_val(b)))))
            ELSE IF either_is_int(a, b)
            THEN IF conversion_panics(a) \/ conversion_panics(b) THEN Panic(I1)
                 \* integer division by zero panics
                 ELSE IF get_int_val(b) = 0 THEN Panic(I1)
                 ELSE Ok(push(I1, IntV(IntDiv(get_int_val(a), get_int_val(b)))))
            ELSE Err(I1, "Value incompatible with numeric op.")
        with_a(rb, ra) ==
            IF ra.kind # "ok" THEN [kind |-> "err", I |-> ra.I, err |-> ra.err]
            ELSE divide(ra.I, ra.val, rb.val)
        with_b(rb) ==
            IF rb.kind # "ok" THEN [kind |-> "err", I |-> rb.I, err |-> rb.err]
            ELSE with_a(rb, pop(rb.I))
    IN with_b(pop(I))

\* get_string_val panics on a value that is not stringable.
string_conversion_panics(v) == ~ is_stringable(v)

\* The closures fop, iop and sop give the value they push.
string_or_numeric_op(I, fop, iop, sop) ==
    LET apply(I1, a, b) ==
            IF either_is_string(a, b)
            THEN IF string_conversion_panics(a) \/ string_conversion_panics(b)
                 THEN Panic(I1)
                 ELSE Ok(push(I1, sop[get_string_val(a), get_string_val(b)]))
            ELSE IF either_is_float(a, b)
            THEN IF conversion_panics(a) \/ conversion_panics(b) THEN Panic(I1)
                 ELSE Ok(push(I1, fop[get_float_val(a), get_float_val(b)]))
            ELSE IF either_is_int(a, b)
            THEN IF conversion_panics(a) \/ conversion_panics(b) THEN Panic(I1)
                 ELSE Ok(push(I1, iop[get_int_val(a), get_int_val(b)]))
            ELSE Err(I1, "Value incompatible with numeric op.")
        with_a(rb, ra) ==
            IF ra.kind # "ok" THEN [kind |-> "err", I |-> ra.I, err |-> ra.err]
            ELSE apply(ra.I, ra.val, rb.val)
        with_b(rb) ==
            IF rb.kind # "ok" THEN [kind |-> "err", I |-> rb.I, err |-> rb.err]
            ELSE with_a(rb, pop(rb.I))
    IN with_b(pop(I))

word_add(I) ==
    string_or_numeric_op(I,
                         [a \in Int, b \in Int |-> FloatV(a + b)],
                         [a \in Int, b \in Int |-> IntV(a + b)],
                         [a \in STRING, b \in STRING |-> StrV(a \o b)])

word_equal(I) ==
    LET with_a(rb, ra) ==
            IF ra.kind # "ok" THEN [kind |-> "err", I |-> ra.I, err |-> ra.err]
            ELSE Ok(push(ra.I, BoolV(ValueEq(ra.val, rb.val, ra.I.heap))))
        with_b(rb) ==
            IF rb.kind # "ok" THEN [kind |-> "err", I |-> rb.I, err |-> rb.err]
            ELSE with_a(rb, pop(rb.I))
    IN with_b(pop(I))

word_drop(I) ==
    LET dropped(r) == [kind |-> r.kind, I |-> r.I, err |-> r.err]
    IN dropped(pop(I))

word_dup(I) ==
    LET with_value(r) ==
            IF r.kind # "ok" THEN [kind |-> "err", I |-> r.I, err |-> r.err]
            ELSE Ok(push(push(r.I, r.val), r.val))
    IN with_value(pop(I))

word_pick(I) ==
    LET picked(rv) ==
            IF rv.kind # "ok"
            THEN [kind |-> rv.kind, I |-> rv.I, err |-> rv.err]
            ELSE Ok(push(rv.I, rv.val))
        with_index(I1, index, count) ==
            IF index < 0 \/ index >= count
            THEN Err(I1, "Index " \o ToString(index)
                         \o " out of range of stack size " \o ToString(count)
                         \o ".")
            ELSE picked(pick(I1, AsUsize(index)))
        with_int(ri) ==
            IF ri.kind # "ok" THEN [kind |-> "err", I |-> ri.I, err |-> ri.err]
            ELSE with_index(ri.I, ri.val, Len(ri.I.stack))
    IN with_int(pop_as_int(I))

word_push_to(I) ==
    LET with_index(I1, index, len) ==
            IF index < 0 \/ index >= len
            THEN Err(I1, "Index " \o ToString(index)
                         \o " out of range of stack length " \o ToString(len)
                         \o ".")
            ELSE push_to(I1, AsUsize(index))
        with_int(ri) ==
            IF ri.kind # "ok" THEN [kind |-> "err", I |-> ri.I, err |-> ri.err]
            ELSE with_index(ri.I, ri.val, Len(ri.I.stack))
    IN with_int(pop_as_int(I))

word_push_back(I) ==
    LET with_value(ra, rv) ==
            IF rv.kind # "ok" THEN [kind |-> "err", I |-> rv.I, err |-> rv.err]
            ELSE Ok([rv.I EXCEPT !.heap[ra.val].items = Append(@, rv.val)])
        with_array(ra) ==
            IF ra.kind # "ok" THEN [kind |-> "err", I |-> ra.I, err |-> ra.err]
            ELSE with_value(ra, pop(ra.I))
    IN with_array(pop_as_array(I))

\* check_bounds lets index = len through; ValueVec's IndexMut then panics.
word_array_write_index(I) ==
    LET with_value(ra, ri, rv) ==
            IF rv.kind # "ok" THEN [kind |-> "err", I |-> rv.I, err |-> rv.err]
            ELSE IF ri.val > Len(rv.I.heap[ra.val].items)
            THEN Err(rv.I, "Index " \o ToString(ri.val)
                           \o " is out of bounds for array of size "
                           \o ToString(Len(rv.I.heap[ra.val].items)) \o ".")
            ELSE IF ri.val >= Len(rv.I.heap[ra.val].items) THEN Panic(rv.I)
            ELSE Ok([rv.I EXCEPT !.heap[ra.val].items[ri.val + 1] = rv.val])
        with_index(ra, ri) ==
            IF ri.kind # "ok" THEN [kind |-> "err", I |-> ri.I, err |-> ri.err]
            ELSE with_value(ra, ri, pop(ri.I))
        with_array(ra) ==
            IF ra.kind # "ok" THEN [kind |-> "err", I |-> ra.I, err |-> ra.err]
            ELSE with_index(ra, pop_as_usize(ra.I))
    IN with_array(pop_as_array(I))

\* check_bounds: an index is refused only when it is beyond the length.
check_bounds(I, array, index) ==
    IF index > Len(I.heap[array].items)
    THEN Err(I, "Index " \o ToString(index)
                \o " is out of bounds for array of size "
                \o ToString(Len(I.heap[array].items)) \o ".")
    ELSE Ok(I)

\* Index for ValueVec panics on an index at or beyond the length.
word_array_read_index(I) ==
    LET checked(ra, ri, bounds) ==
            IF bounds.kind # "ok" THEN bounds
            ELSE IF ri.val >= Len(ri.I.heap[ra.val].items) THEN Panic(ri.I)
            ELSE Ok(push(ri.I, ri.I.heap[ra.val].items[ri.val + 1]))
        with_index(ra, ri) ==
            IF ri.kind # "ok" THEN [kind |-> "err", I |-> ri.I, err |-> ri.err]
            ELSE checked(ra, ri, check_bounds(ri.I, ra.val, ri.val))
        with_array(ra) ==
            IF ra.kind # "ok" THEN [kind |-> "err", I |-> ra.I, err |-> ra.err]
            ELSE with_index(ra, pop_as_usize(ra.I))
    IN with_array(pop_as_array(I))

\* VecDeque::remove returns None for an index that is out of bounds; the
\* result is dropped.
word_array_delete(I) ==
    LET checked(ra, ri, bounds) ==
            IF bounds.kind # "ok" THEN bounds
            ELSE IF ri.val >= Len(ri.I.heap[ra.val].items) THEN Ok(ri.I)
            ELSE Ok([ri.I EXCEPT !.heap[ra.val].items =
                         SubSeq(@, 1, ri.val)
                         \o SubSeq(@, ri.val + 2, Len(@))])
        with_index(ra, ri) ==
            IF ri.kind # "ok" THEN [kind |-> "err", I |-> ri.I, err |-> ri.err]
            ELSE checked(ra, ri, check_bounds(ri.I, ra.val, ri.val))
        with_array(ra) ==
            IF ra.kind # "ok" THEN [kind |-> "err", I |-> ra.I, err |-> ra.err]
            ELSE with_index(ra, pop_as_usize(ra.I))
    IN with_array(pop_as_array(I))

word_pop_front(I) ==
    LET with_array(ra) ==
            IF ra.kind # "ok" THEN [kind |-> "err", I |-> ra.I, err |-> ra.err]
            ELSE IF ra.I.heap[ra.val].items = << >>
            THEN Err(ra.I, "[].pop_front from an empty array.")
            ELSE Ok(push([ra.I EXCEPT !.heap[ra.val].items = Tail(@)],
                         Head(ra.I.heap[ra.val].items)))
    IN with_array(pop_as_array(I))

word_pop_back(I) ==
    LET with_array(ra) ==
            IF ra.kind # "ok" THEN [kind |-> "err", I |-> ra.I, err |-> ra.err]
            ELSE IF ra.I.heap[ra.val].items = << >>
            THEN Err(ra.I, "[].pop_back from an empty array.")
            ELSE Ok(push([ra.I EXCEPT !.heap[ra.val].items =
                             SubSeq(@, 1, Len(@) - 1)],
                         ra.I.heap[ra.val].items[
                             Len(ra.I.heap[ra.val].items)]))
    IN with_array(pop_as_array(I))

word_hash_compare(I) ==
    LET with_a(rb, ra) ==
            IF ra.kind # "ok" THEN [kind |-> "err", I |-> ra.I, err |-> ra.err]
            ELSE Ok(push(ra.I, BoolV(ValueHashEq(ra.I.heap[ra.val].items,
                                                 ra.I.heap[rb.val].items,
                                                 ra.I.heap))))
        with_b(rb) ==
            IF rb.kind # "ok" THEN [kind |-> "err", I |-> rb.I, err |-> rb.err]
            ELSE with_a(rb, pop_as_hash_map(rb.I))
    IN with_b(pop_as_hash_map(I))

check_buffer_index(I, buffer_ptr, byte_size) ==
    IF I.heap[buffer_ptr].items.current_position + byte_size
           > Len(I.heap[buffer_ptr].items.buffer)
    THEN Err(I, "Writing a value size " \o ToString(byte_size)
                \o " at a position "
                \o ToString(I.heap[buffer_ptr].items.current_position)
                \o " would exceed the buffer size "
                \o ToString(Len(I.heap[buffer_ptr].items.buffer)) \o ".")
    ELSE Ok(I)

\* The result of a word that ends with a call of a ByteBuffer method: the
\* buffer the method leaves, and the value it returns pushed when the word
\* pushes one.
buffer_call(I, buffer_ptr, r, pushes) ==
    IF r.kind # "ok" THEN Panic(I)
    ELSE Ok(IF pushes
            THEN push([I EXCEPT !.heap[buffer_ptr].items = r.bb], r.val)
            ELSE [I EXCEPT !.heap[buffer_ptr].items = r.bb])

word_buffer_write_int(I) ==
    LET checked(rs, rb, rv, index) ==
            IF index.kind # "ok" THEN index
            ELSE IF rs.val \notin {1, 2, 4, 8}
            THEN Err(rv.I, "Invalid byte size " \o ToString(rs.val)
                           \o " for integer value.")
            ELSE buffer_call(rv.I, rb.val,
                             write_int(rv.I.heap[rb.val].items, rs.val,
                                       rv.val),
                             FALSE)
        with_value(rs, rb, rv) ==
            IF rv.kind # "ok" THEN [kind |-> "err", I |-> rv.I, err |-> rv.err]
            ELSE checked(rs, rb, rv, check_buffer_index(rv.I, rb.val, rs.val))
        with_buffer(rs, rb) ==
            IF rb.kind # "ok" THEN [kind |-> "err", I |-> rb.I, err |-> rb.err]
            ELSE with_value(rs, rb, pop_as_int(rb.I))
        with_size(rs) ==
            IF rs.kind # "ok" THEN [kind |-> "err", I |-> rs.I, err |-> rs.err]
            ELSE with_buffer(rs, pop_as_byte_buffer(rs.I))
    IN with_size(pop_as_usize(I))

word_buffer_read_int(I) ==
    LET read(I1, buffer_ptr, r) ==
            buffer_call(I1, buffer_ptr, [r EXCEPT !.val = IntV(@)], TRUE)
        checked(rg, rs, rb, index) ==
            IF index.kind # "ok" THEN index
            ELSE IF rs.val \notin {1, 2, 4, 8}
            THEN Err(rb.I, "Invalid byte size " \o ToString(rs.val)
                           \o " for integer value.")
            ELSE read(rb.I, rb.val,
                      read_int(rb.I.heap[rb.val].items, rs.val, rg.val))
        with_buffer(rg, rs, rb) ==
            IF rb.kind # "ok" THEN [kind |-> "err", I |-> rb.I, err |-> rb.err]
            ELSE checked(rg, rs, rb, check_buffer_index(rb.I, rb.val, rs.val))
        with_size(rg, rs) ==
            IF rs.kind # "ok" THEN [kind |-> "err", I |-> rs.I, err |-> rs.err]
            ELSE with_buffer(rg, rs, pop_as_byte_buffer(rs.I))
        with_signed(rg) ==
            IF rg.kind # "ok" THEN [kind |-> "err", I |-> rg.I, err |-> rg.err]
            ELSE with_size(rg, pop_as_usize(rg.I))
    IN with_signed(pop_as_bool(I))

\* The word does not call check_buffer_index.
word_buffer_write_float(I) ==
    LET with_value(rs, rb, rv) ==
            IF rv.kind # "ok" THEN [kind |-> "err", I |-> rv.I, err |-> rv.err]
            ELSE IF rs.val \notin {4, 8}
            THEN Err(rv.I, "Invalid byte size " \o ToString(rs.val)
                           \o " for floating point value.")
            ELSE buffer_call(rv.I, rb.val,
                             write_float(rv.I.heap[rb.val].items, rs.val,
                                         rv.val),
                             FALSE)
        with_buffer(rs, rb) ==
            IF rb.kind # "ok" THEN [kind |-> "err", I |-> rb.I, err |-> rb.err]
            ELSE with_value(rs, rb, pop_as_float(rb.I))
        with_size(rs) ==
            IF rs.kind # "ok" THEN [kind |-> "err", I |-> rs.I, err |-> rs.err]
            ELSE with_buffer(rs, pop_as_byte_buffer(rs.I))
    IN with_size(pop_as_usize(I))

word_buffer_write_string(I) ==
    LET checked(rs, rb, rv, index) ==
            IF index.kind # "ok" THEN index
            ELSE buffer_call(rv.I, rb.val,
                             write_string(rv.I.heap[rb.val].items, rs.val,
                                          rv.val),
                             FALSE)
        with_value(rs, rb, rv) ==
            IF rv.kind # "ok" THEN [kind |-> "err", I |-> rv.I, err |-> rv.err]
            ELSE checked(rs, rb, rv, check_buffer_index(rv.I, rb.val, rs.val))
        with_buffer(rs, rb) ==
            IF rb.kind # "ok" THEN [kind |-> "err", I |-> rb.I, err |-> rb.err]
            ELSE with_value(rs, rb, pop_as_string(rb.I))
        with_size(rs) ==
            IF rs.kind # "ok" THEN [kind |-> "err", I |-> rs.I, err |-> rs.err]
            ELSE with_buffer(rs, pop_as_byte_buffer(rs.I))
    IN with_size(pop_as_usize(I))

word_buffer_read_string(I) ==
    LET read(I1, buffer_ptr, r) ==
            buffer_call(I1, buffer_ptr, [r EXCEPT !.val = StrV(@)], TRUE)
        checked(rs, rb, index) ==
            IF index.kind # "ok" THEN index
            ELSE read(rb.I, rb.val,
                      read_string(rb.I.heap[rb.val].items, rs.val))
        with_buffer(rs, rb) ==
            IF rb.kind # "ok" THEN [kind |-> "err", I |-> rb.I, err |-> rb.err]
            ELSE checked(rs, rb, check_buffer_index(rb.I, rb.val, rs.val))
        with_size(rs) ==
            IF rs.kind # "ok" THEN [kind |-> "err", I |-> rs.I, err |-> rs.err]
            ELSE with_buffer(rs, pop_as_byte_buffer(rs.I))
    IN with_size(pop_as_usize(I))

word_buffer_set_position(I) ==
    LET with_position(rb, rp) ==
            IF rp.kind # "ok" THEN [kind |-> "err", I |-> rp.I, err |-> rp.err]
            ELSE IF rp.val > Len(rp.I.heap[rb.val].items.buffer)
            THEN Err(rp.I, "Setting buffer position " \o ToString(rp.val)
                           \o " beyond buffer size "
                           \o ToString(Len(rp.I.heap[rb.val].items.buffer))
                           \o ".")
            ELSE buffer_call(rp.I, rb.val,
                             set_position(rp.I.heap[rb.val].items, rp.val),
                             FALSE)
        with_buffer(rb) ==
            IF rb.kind # "ok" THEN [kind |-> "err", I |-> rb.I, err |-> rb.err]
            ELSE with_position(rb, pop_as_usize(rb.I))
    IN with_buffer(pop_as_byte_buffer(I))

word_swap(I) ==
    LET with_b(ra, rb) ==
            IF rb.kind # "ok" THEN [kind |-> "err", I |-> rb.I, err |-> rb.err]
            ELSE Ok(push(push(rb.I, ra.val), rb.val))
        with_a(ra) ==
            IF ra.kind # "ok" THEN [kind |-> "err", I |-> ra.I, err |-> ra.err]
            ELSE with_b(ra, pop(ra.I))
    IN with_a(pop(I))

word_over(I) ==
    LET with_b(ra, rb) ==
            IF rb.kind # "ok" THEN [kind |-> "err", I |-> rb.I, err |-> rb.err]
            ELSE Ok(push(push(push(rb.I, ra.val), rb.val), ra.val))
        with_a(ra) ==
            IF ra.kind # "ok" THEN [kind |-> "err", I |-> ra.I, err |-> ra.err]
            ELSE with_b(ra, pop(ra.I))
    IN with_a(pop(I))

word_rot(I) ==
    LET with_a(rc, rb, ra) ==
            IF ra.kind # "ok" THEN [kind |-> "err", I |-> ra.I, err |-> ra.err]
            ELSE Ok(push(push(push(ra.I, rc.val), ra.val), rb.val))
        with_b(rc, rb) ==
            IF rb.kind # "ok" THEN [kind |-> "err", I |-> rb.I, err |-> rb.err]
            ELSE with_a(rc, rb, pop(rb.I))
        with_c(rc) ==
            IF rc.kind # "ok" THEN [kind |-> "err", I |-> rc.I, err |-> rc.err]
            ELSE with_b(rc, pop(rc.I))
    IN with_c(pop(I))

word_stack_depth(I) == Ok(push(I, IntV(Len(I.stack))))

\* ValueVec::new: new_size default values in a new array.
word_array_new(I) ==
    LET with_size(rs) ==
            IF rs.kind # "ok" THEN [kind |-> "err", I |-> rs.I, err |-> rs.err]
            ELSE Ok(push([rs.I EXCEPT !.heap =
                             Append(@, VecCell([i \in 1..rs.val |-> NoneV]))],
                         VecV(Len(rs.I.heap) + 1)))
    IN with_size(pop_as_usize(I))

word_array_size(I) ==
    LET with_array(ra) ==
            IF ra.kind # "ok" THEN [kind |-> "err", I |-> ra.I, err |-> ra.err]
            ELSE Ok(push(ra.I, IntV(Len(ra.I.heap[ra.val].items))))
    IN with_array(pop_as_array(I))

word_buffer_size(I) ==
    LET with_buffer(rb) ==
            IF rb.kind # "ok" THEN [kind |-> "err", I |-> rb.I, err |-> rb.err]
            ELSE Ok(push(rb.I, IntV(Len(rb.I.heap[rb.val].items.buffer))))
    IN with_buffer(pop_as_byte_buffer(I))

\* SorthInterpreter::reset: the innermost context is released and the stack
\* is cleared; no context is marked again.
reset(I) ==
    IF release_panics(I) THEN Panic(I)
    ELSE Ok([release_context(I) EXCEPT !.stack = << >>])

word_reset(I) == reset(I)

\* ------------------------------------------------------ compile contexts

\* Construction::new, with the given code.
Construction(code) ==
    [runtime |-> "Normal", visibility |-> "Visible", name |-> "",
     code |-> code]

\* CodeConstructor::new.
CodeConstructor(token_list) ==
    [constructions |-> << Construction(<< >>) >>, insertion |-> "AtEnd",
     input |-> token_list, current |-> 0]

\* ScriptError::new_as_result(None, message, None).
ErrNoLocation(I, message) ==
    [kind |-> "err", I |-> I,
     err |-> [location |-> NoLoc, error |-> message, call_stack |-> << >>]]

context_new(I, tokens) ==
    [I EXCEPT !.constructors = Append(@, CodeConstructor(tokens))]

\* context and context_mut panic when there is no compile context.
context_panics(I) == I.constructors = << >>

context(I) == I.constructors[Len(I.constructors)]

\* context_drop that leaves the context on the stack.
context_drop_keeps(I) ==
    IF I.constructors = << >>
    THEN Err(I, "Compile context stack underflow.")
    ELSE Ok(I)

context_drop(I) ==
    IF I.constructors = << >>
    THEN Err(I, "Compile context stack underflow.")
    ELSE Ok([I EXCEPT !.constructors = SubSeq(@, 1, Len(@) - 1)])

\* construction and construction_mut fail on an empty construction stack.
construction_fails(I) == context(I).constructions = << >>

construction(I) == context(I).constructions[Len(context(I).constructions)]

\* The top construction of the top context becomes c.
with_construction(I, c) ==
    [I EXCEPT !.constructors[Len(I.constructors)].constructions[
                  Len(context(I).constructions)] = c]

push_instruction(I, instruction) ==
    IF construction_fails(I)
    THEN ErrNoLocation(I, "Accessing an empty construction context.")
    ELSE Ok(with_construction(I,
            [construction(I) EXCEPT !.code =
                IF context(I).insertion = "AtEnd"
                THEN Append(@, instruction)
                ELSE << instruction >> \o @]))

word_immediate(I) ==
    IF context_panics(I) THEN Panic(I)
    ELSE IF construction_fails(I)
    THEN ErrNoLocation(I, "Accessing an empty construction context.")
    ELSE Ok(with_construction(I,
            [construction(I) EXCEPT !.runtime = "Immediate"]))

\* CodeConstructor::construction_new, for a word of the given name.
construction_new(I, name) ==
    [I EXCEPT !.constructors[Len(I.constructors)].constructions =
                  Append(@, [Construction(<< >>) EXCEPT !.name = name])]

\* construction_pop fails only on an empty construction stack.
construction_pop_fails(I) == context(I).constructions = << >>

\* The interpreter after construction_pop; the construction popped is
\* construction(I).
construction_pop(I) ==
    IF construction_pop_fails(I)
    THEN ErrNoLocation(I, "No construction to pop.")
    ELSE Ok([I EXCEPT !.constructors[Len(I.constructors)].constructions =
                          SubSeq(@, 1, Len(@) - 1)])

\* SorthInterpreter::next_token: the token read, if one is left.
tokens_left(I) == context(I).current < Len(context(I).input)

token_read(I) == context(I).input[context(I).current + 1]

token_taken(I) ==
    [I EXCEPT !.constructors[Len(I.constructors)].current = @ + 1]

\* `:` reads the name of the word and starts a construction for it.
word_start_word(I) ==
    IF context_panics(I) THEN Panic(I)
    ELSE IF ~ tokens_left(I)
    THEN Err(I, "Reading past end of token stream.")
    ELSE CASE token_read(I).token.kind = "Word" ->
                  Ok(construction_new(token_taken(I), token_read(I).token.s))
           [] token_read(I).token.kind = "Number" ->
                  Ok(construction_new(token_taken(I),
                         IF token_read(I).token.num.t = "Int"
                         THEN ToString(token_read(I).token.num.v)
                         ELSE FloatStr(token_read(I).token.num.v)))
           [] token_read(I).token.kind = "String" ->
                  Err(token_taken(I), "Can not use a string as a word name.")

\* The word a popped construction defines.
defined_word(I, c) ==
    [add_word(I, c.name, ScriptFunction(c.code))
        EXCEPT !.dictionary[Len(I.dictionary)][c.name].runtime = c.runtime]

\* `;` pops the construction and adds it as a word.
word_end_word(I) ==
    IF context_panics(I) THEN Panic(I)
    ELSE IF construction_pop(I).kind # "ok" THEN construction_pop(I)
    ELSE Ok(defined_word(construction_pop(I).I, construction(I)))

word_code_merge_stack_block(I) ==
    IF context_panics(I) THEN Panic(I)
    ELSE IF construction_pop(I).kind # "ok" THEN construction_pop(I)
    ELSE IF construction_fails(construction_pop(I).I)
    THEN ErrNoLocation(construction_pop(I).I,
                       "Accessing an empty construction context.")
    ELSE Ok(with_construction(construction_pop(I).I,
            [construction(construction_pop(I).I) EXCEPT !.code =
                 @ \o construction(I).code]))

word_code_pop_stack_block(I) ==
    IF context_panics(I) THEN Panic(I)
    ELSE IF construction_pop(I).kind # "ok" THEN construction_pop(I)
    ELSE Ok(push(construction_pop(I).I, CodeV(construction(I).code)))

\* The handler function of a native word.
NativeCall(fn, I) ==
    CASE fn = "word_divide" -> word_divide(I)
      [] fn = "word_equal" -> word_equal(I)
      [] fn = "word_drop" -> word_drop(I)
      [] fn = "word_dup" -> word_dup(I)
      [] fn = "word_pick" -> word_pick(I)
      [] fn = "word_push_to" -> word_push_to(I)
      [] fn = "word_push_back" -> word_push_back(I)
      [] fn = "word_array_write_index" -> word_array_write_index(I)
      [] fn = "word_add" -> word_add(I)
      [] fn = "word_hash_compare" -> word_hash_compare(I)
      [] fn = "word_array_read_index" -> word_array_read_index(I)
      [] fn = "word_array_delete" -> word_array_delete(I)
      [] fn = "word_pop_front" -> word_pop_front(I)
      [] fn = "word_pop_back" -> word_pop_back(I)
      [] fn = "word_buffer_write_int" -> word_buffer_write_int(I)
      [] fn = "word_buffer_read_int" -> word_buffer_read_int(I)
      [] fn = "word_buffer_write_float" -> word_buffer_write_float(I)
      [] fn = "word_buffer_write_string" -> word_buffer_write_string(I)
      [] fn = "word_buffer_read_string" -> word_buffer_read_string(I)
      [] fn = "word_buffer_set_position" -> word_buffer_set_position(I)
      [] fn = "word_swap" -> word_swap(I)
      [] fn = "word_over" -> word_over(I)
      [] fn = "word_rot" -> word_rot(I)
      [] fn = "word_stack_depth" -> word_stack_depth(I)
      [] fn = "word_array_new" -> word_array_new(I)
      [] fn = "word_array_size" -> word_array_size(I)
      [] fn = "word_buffer_size" -> word_buffer_size(I)
      [] fn = "word_reset" -> word_reset(I)
      [] fn = "word_immediate" -> word_immediate(I)
      [] fn = "word_start_word" -> word_start_word(I)
      [] fn = "word_end_word" -> word_end_word(I)
      [] fn = "word_code_merge_stack_block" -> word_code_merge_stack_block(I)
      [] fn = "word_code_pop_stack_block" -> word_code_pop_stack_block(I)


\* ---------------------------------------------------- instruction handlers

\* The result of one instruction: the handler's result kind, the interpreter,
\* the error, the frame's locals, and for a scripted word the block to run.
Res(r, f) ==
    [kind |-> r.kind, I |-> r.I, err |-> r.err, f |-> f,
     name |-> "", code |-> << >>]

define_variable(I, value) ==
    IF ~ is_stringable(value)
    THEN Err(I, "Invalid variable name " \o ValueStr(value) \o ".")
    ELSE LET name == get_string_val(value)
             vars1 == CL_insert(I.variables, NoneV)
             index == CL_len(vars1) - 1
         IN Ok(add_word([I EXCEPT !.variables = vars1], name,
                        VariableHandler(index)))

define_constant(I, value) ==
    IF ~ is_stringable(value)
    THEN Err(I, "Invalid constant name " \o ValueStr(value) \o ".")
    ELSE LET name == get_string_val(value)
             r == pop(I)
         IN IF r.kind # "ok" THEN [kind |-> "err", I |-> r.I, err |-> r.err]
            ELSE Ok(add_word(r.I, name, ConstantHandler(r.val)))

read_variable(I) ==
    LET r == pop_as_int(I)
        index == r.val
    IN IF r.kind # "ok" THEN [kind |-> "err", I |-> r.I, err |-> r.err]
       ELSE IF AsUsize(index) >= CL_len(r.I.variables)
       THEN Err(r.I, "Read index " \o ToString(index)
                     \o " out of range of variable set.")
       ELSE IF CL_index_panics(r.I.variables, AsUsize(index)) THEN Panic(r.I)
       ELSE Ok(push(r.I, CL_index(r.I.variables, AsUsize(index))))

write_variable(I) ==
    LET r == pop_as_int(I)
        index == r.val
        rv == pop(r.I)
    IN IF r.kind # "ok" THEN [kind |-> "err", I |-> r.I, err |-> r.err]
       ELSE IF rv.kind # "ok" THEN [kind |-> "err", I |-> rv.I, err |-> rv.err]
       ELSE IF AsUsize(index) >= CL_len(rv.I.variables)
       THEN Err(rv.I, "Write index " \o ToString(index)
                      \o " out of range of variable set.")
       ELSE IF CL_index_panics(rv.I.variables, AsUsize(index)) THEN Panic(rv.I)
       ELSE Ok([rv.I EXCEPT !.variables =
                                CL_index_mut(@, AsUsize(index), rv.val)])

\* The value itself is pushed, not a clone of it.
push_constant_value_shares(I, value) == Ok(push(I, value))
push_constant_value(I, value) ==
    LET new_value == deep_clone(value, I.heap)
    IN Ok(push([I EXCEPT !.heap = new_value.heap], new_value.val))

\* The handler of a word defined by DefConstant.
constant_handler(I, constant) ==
    LET c == deep_clone(constant, I.heap)
    IN Ok(push([I EXCEPT !.heap = c.heap], c.val))

\* The handler of a word defined by DefVariable.
variable_handler(I, index) == Ok(push(I, IntV(index)))

\* ScriptFunction::call up to the call of execute_code.
script_function_enter(I) == mark_context(I)

\* ScriptFunction::call after execute_code has returned.
script_function_leave(I) ==
    IF release_panics(I) THEN Panic(I) ELSE Ok(release_context(I))

\* execute_word_handler: a native, variable or constant handler runs between
\* the push and the pop of the word's call item; a scripted word's block is
\* handed back to be run ("call").
execute_word_handler(I, location, info) ==
    LET I1 == [I EXCEPT !.current_location = location,
                        !.call_stack = Append(@, CallItem(info.name,
                            IF location = NoLoc THEN DefaultLoc ELSE location))]
        h == info.handler
        unpush(r) ==
            [kind |-> r.kind, err |-> r.err,
             I |-> [r.I EXCEPT !.call_stack = SubSeq(@, 1, Len(@) - 1)]]
    IN CASE h.kind = "native" ->
                Res(unpush(NativeCall(h.fn, I1)), << >>)
         [] h.kind = "variable" ->
                Res(unpush(variable_handler(I1, h.index)), << >>)
         [] h.kind = "constant" ->
                Res(unpush(constant_handler(I1, h.value)), << >>)
         [] h.kind = "script" ->
                [kind |-> "call", I |-> script_function_enter(I1),
                 err |-> NoErr, f |-> << >>, name |-> info.name,
                 code |-> h.code]

word_handler_info_exists(I, index) == index < CL_len(I.word_handlers)

execute_word(I, location, word) ==
    IF word_handler_info_exists(I, word.handler_index)
    THEN execute_word_handler(I, location,
                              CL_index(I.word_handlers, word.handler_index))
    ELSE Res(Err(I, "Handler for word " \o word.name \o ", ("
                    \o ToString(word.handler_index) \o ") not found."), << >>)

execute_word_named(I, location, word) ==
    IF Dictionary_has(I.dictionary, word)
    THEN execute_word(I, location, Dictionary_try_get(I.dictionary, word))
    ELSE Res(Err(I, "Word " \o word \o " not found."), << >>)

\* execute_word_index that executes the current definition of the name the
\* handler at the index was defined with.
execute_word_index_by_name(I, location, index) ==
    IF word_handler_info_exists(I, index)
    THEN execute_word_named(I, location, CL_index(I.word_handlers, index).name)
    ELSE Res(Err(I, "Word handler index " \o ToString(index)
                    \o " not found."), << >>)

execute_word_index(I, location, index) ==
    IF word_handler_info_exists(I, index)
    THEN execute_word_handler(I, location, CL_index(I.word_handlers, index))
    ELSE Res(Err(I, "Word handler index " \o ToString(index)
                    \o " not found."), << >>)

execute_value(I, value) ==
    LET location == I.current_location
    IN CASE is_string(value) -> execute_word_named(I, location, value.s)
         [] is_int(value) -> execute_word_index(I, location, AsUsize(value.v))
         [] OTHER -> Res(Err(I, "Value " \o ValueStr(value)
                                \o " is not executable."), << >>)

absolute_index(I, pc, relative_index) ==
    IF is_numeric(relative_index)
    THEN [kind |-> "ok", I |-> I, err |-> NoErr,
          val |-> AsUsize(pc + get_int_val(relative_index))]
    ELSE [kind |-> "err", I |-> I, val |-> 0,
          err |-> script_error(I, "Invalid loop exit index "
                                  \o ValueStr(relative_index) \o ".")]


\* ------------------------------------------------------------ execute_code

\* Instructions and bytecode blocks.
Instr(op, value, location) ==
    [op |-> op, value |-> value, location |-> location]

\* The locals of one invocation of execute_code; entry_depth and entry_calls
\* record the number of scopes and of call stack entries at the time of the
\* call.
Frame(name, code, I) ==
    [name |-> name, code |-> code, pc |-> 0, contexts |-> 0,
     call_stack_pushed |-> FALSE, loop_locations |-> << >>,
     catch_locations |-> << >>, entry_depth |-> Len(I.dictionary),
     entry_calls |-> Len(I.call_stack)]

\* What a step leaves behind: interpreter, frames, status and, when the
\* outermost block returned an error, that error.
Out(I, fs, st, err) == [I |-> I, frames |-> fs, status |-> st, err |-> err]

\* The instruction's location, when it has one, becomes the current location
\* and is pushed on the call stack under the block's name.
fetch(I, f, instr) ==
    IF instr.location # NoLoc
    THEN [I |-> call_stack_push([I EXCEPT !.current_location = instr.location],
                                f.name, instr.location),
          f |-> [f EXCEPT !.call_stack_pushed = TRUE]]
    ELSE [I |-> I, f |-> f]

\* usize subtraction of one: with overflow checks 0 - 1 panics, without it
\* wraps.
usize_dec_panics(n, overflow_checks) == n = 0 /\ overflow_checks
usize_dec(n) == IF n = 0 THEN UsizeMod - 1 ELSE n - 1
usize_inc(n) == (n + 1) % UsizeMod

\* jump_if_match: the boolean is popped before the index is computed; on a
\* match the pc is set one before the index.
jump_if_match(I, f, relative_index, test_value, overflow_checks) ==
    LET jump(computed) ==
            IF usize_dec_panics(computed.val, overflow_checks)
            THEN Res(Panic(computed.I), f)
            ELSE Res(Ok(computed.I), [f EXCEPT !.pc = usize_dec(computed.val)])
        matched(found, computed) ==
            IF computed.kind # "ok" THEN Res(computed, f)
            ELSE IF found.val = test_value THEN jump(computed)
            ELSE Res(Ok(computed.I), f)
        popped(found) ==
            IF found.kind # "ok" THEN Res(found, f)
            ELSE matched(found, absolute_index(found.I, f.pc, relative_index))
    IN popped(pop_as_bool(I))

\* MarkLoopExit: the index after the instruction and the computed end are
\* pushed as the innermost loop.
mark_loop_exit(I, f, relative_index) ==
    LET marked(computed) ==
            IF computed.kind # "ok" THEN Res(computed, f)
            ELSE Res(Ok(I), [f EXCEPT !.loop_locations =
                     Append(@, [start |-> usize_inc(f.pc),
                                end |-> computed.val])])
    IN marked(absolute_index(I, f.pc, relative_index))

\* The jump goes to the outermost loop.
jump_loop_outermost(I, f, to, overflow_checks) ==
    LET jump(index) ==
            IF usize_dec_panics(index, overflow_checks) THEN Res(Panic(I), f)
            ELSE Res(Ok(I), [f EXCEPT !.pc = usize_dec(index)])
    IN IF f.loop_locations = << >>
       THEN Res(Err(I, IF to = "start" THEN "JumpLoopStart outside of loop."
                       ELSE "JumpLoopExit outside of loop."), f)
       ELSE jump(f.loop_locations[1][to])

\* JumpLoopStart and JumpLoopExit: the pc is set one before the start or the
\* end of the innermost loop.
jump_loop(I, f, to, overflow_checks) ==
    LET jump(index) ==
            IF usize_dec_panics(index, overflow_checks) THEN Res(Panic(I), f)
            ELSE Res(Ok(I), [f EXCEPT !.pc = usize_dec(index)])
    IN IF f.loop_locations = << >>
       THEN Res(Err(I, IF to = "start" THEN "JumpLoopStart outside of loop."
                       ELSE "JumpLoopExit outside of loop."), f)
       ELSE jump(f.loop_locations[Len(f.loop_locations)][to])

\* The match on the instruction's op.
exec_op(I, f, instr, overflow_checks) ==
    LET op == instr.op
    IN CASE op = "DefVariable" -> Res(define_variable(I, instr.value), f)
         [] op = "DefConstant" -> Res(define_constant(I, instr.value), f)
         [] op = "ReadVariable" -> Res(read_variable(I), f)
         [] op = "WriteVariable" -> Res(write_variable(I), f)
         [] op = "Execute" -> [execute_value(I, instr.value) EXCEPT !.f = f]
         [] op = "PushConstantValue" ->
                Res(push_constant_value(I, instr.value), f)
         [] op = "MarkCatch" ->
                LET computed == absolute_index(I, f.pc, instr.value)
                IN IF computed.kind = "ok"
                   THEN Res(Ok(I), [f EXCEPT !.catch_locations =
                                                 Append(@, computed.val)])
                   ELSE Res(computed, f)
         [] op = "UnmarkCatch" ->
                IF f.catch_locations = << >>
                THEN Res(Err(I, "Unbalanced catch exit marker."), f)
                ELSE Res(Ok(I), [f EXCEPT !.catch_locations =
                                              SubSeq(@, 1, Len(@) - 1)])
         [] op = "MarkContext" ->
                Res(Ok(mark_context(I)), [f EXCEPT !.contexts = @ + 1])
         [] op = "ReleaseContext" ->
                IF f.contexts = 0
                THEN Res(Err(I, "Unbalanced context release detected."), f)
                ELSE Res(Ok(I), [f EXCEPT !.contexts = @ - 1])
         [] op = "Jump" ->
                LET computed == absolute_index(I, f.pc, instr.value)
                IN IF computed.kind # "ok" THEN Res(computed, f)
                   ELSE IF usize_dec_panics(computed.val, overflow_checks)
                   THEN Res(Panic(I), f)
                   ELSE Res(Ok(I), [f EXCEPT !.pc = usize_dec(computed.val)])
         [] op = "JumpIfZero" ->
                jump_if_match(I, f, instr.value, FALSE, overflow_checks)
         [] op = "JumpIfNotZero" ->
                jump_if_match(I, f, instr.value, TRUE, overflow_checks)
         [] op = "MarkLoopExit" -> mark_loop_exit(I, f, instr.value)
         [] op = "UnmarkLoopExit" ->
                IF f.loop_locations = << >>
                THEN Res(Err(I, "Unbalanced loop exit marker."), f)
                ELSE Res(Ok(I), [f EXCEPT !.loop_locations =
                                              SubSeq(@, 1, Len(@) - 1)])
         [] op = "JumpLoopStart" -> jump_loop(I, f, "start", overflow_checks)
         [] op = "JumpLoopExit" -> jump_loop(I, f, "end", overflow_checks)
         [] op = "JumpTarget" -> Res(Ok(I), f)

\* cleanup_contexts: one release_context per context still counted.
RECURSIVE release_contexts(_, _)
release_contexts(I, contexts) ==
    IF contexts = 0 THEN Ok(I)
    ELSE IF release_panics(I) THEN Panic(I)
    ELSE release_contexts(release_context(I), contexts - 1)

cleanup_contexts(I, contexts, report_error) ==
    LET r == release_contexts(I, contexts)
    IN IF r.kind # "ok" THEN r
       ELSE IF report_error /\ contexts > 0
       THEN Err(r.I, "Unbalanced context handling detected.")
       ELSE r

\* A variant of catch_error that leaves the catch location in place.
catch_error_keeps_location(I, f, err, overflow_checks) ==
    LET catch_index == f.catch_locations[Len(f.catch_locations)]
    IN IF usize_dec_panics(catch_index, overflow_checks)
       THEN [kind |-> "panic", I |-> I, f |-> f]
       ELSE [kind |-> "ok", I |-> push(I, StrV(ErrToString(err))),
             f |-> [f EXCEPT !.pc = usize_dec(catch_index)]]

\* A failed instruction with a catch location: the location is popped, the
\* pc is set one before it and the error's text is pushed.
catch_error(I, f, err, overflow_checks) ==
    LET catch_index == f.catch_locations[Len(f.catch_locations)]
        f1 == [f EXCEPT !.catch_locations = SubSeq(@, 1, Len(@) - 1)]
    IN IF usize_dec_panics(catch_index, overflow_checks)
       THEN [kind |-> "panic", I |-> I, f |-> f1]
       ELSE [kind |-> "ok", I |-> push(I, StrV(ErrToString(err))),
             f |-> [f1 EXCEPT !.pc = usize_dec(catch_index)]]

\* A failed instruction without a catch location: the call stack entry of the
\* instruction is popped and the counted contexts are released.
abandon(I, f, err) ==
    LET p == IF f.call_stack_pushed THEN call_stack_pop(I) ELSE Ok(I)
        c == cleanup_contexts(p.I, f.contexts, FALSE)
    IN IF p.kind # "ok" THEN p
       ELSE IF c.kind = "panic" THEN c
       ELSE [kind |-> "err", I |-> c.I, err |-> err]

RECURSIVE finish(_, _, _, _, _)
RECURSIVE unwind(_, _, _, _, _)

\* What follows the match in the loop of execute_code, for the innermost
\* frame of fs, whose instruction gave `kind` (and `err`).
finish(I, fs, kind, err, overflow_checks) ==
    LET n == Len(fs)
        f == fs[n]
        callers == SubSeq(fs, 1, n - 1)
    IN IF kind = "err"
       THEN IF f.catch_locations # << >>
            THEN LET c == catch_error(I, f, err, overflow_checks)
                 IN IF c.kind = "panic" THEN Out(c.I, fs, "panicked", NoErr)
                    ELSE Out(c.I, [fs EXCEPT ![n] =
                                       [c.f EXCEPT !.pc = usize_inc(@)]],
                             "running", NoErr)
            ELSE LET a == abandon(I, f, err)
                 IN IF a.kind = "panic" THEN Out(a.I, fs, "panicked", NoErr)
                    ELSE unwind(a.I, callers, "err", a.err, overflow_checks)
       ELSE IF f.call_stack_pushed
       THEN LET p == call_stack_pop(I)
            IN IF p.kind # "ok"
               THEN unwind(p.I, callers, "err", p.err, overflow_checks)
               ELSE Out(p.I, [fs EXCEPT ![n] =
                                  [f EXCEPT !.call_stack_pushed = FALSE,
                                            !.pc = usize_inc(@)]],
                        "running", NoErr)
       ELSE Out(I, [fs EXCEPT ![n].pc = usize_inc(@)], "running", NoErr)

\* execute_code has returned `kind` to its caller: the outermost block ends
\* the run; a scripted word's block returns through ScriptFunction::call and
\* execute_word_handler into the caller's loop.
unwind(I, callers, kind, err, overflow_checks) ==
    IF callers = << >>
    THEN Out(I, << >>, IF kind = "ok" THEN "done" ELSE "error", err)
    ELSE LET l == script_function_leave(I)
             I1 == [l.I EXCEPT !.call_stack =
                                   IF @ = << >> THEN @
                                   ELSE SubSeq(@, 1, Len(@) - 1)]
         IN IF l.kind = "panic" THEN Out(I, callers, "panicked", NoErr)
            ELSE finish(I1, callers, kind, err, overflow_checks)

\* The loop after the match: a panic ends the run, a scripted word's block
\* becomes the innermost frame, any other result is finished in this frame.
after_op(r, fs, overflow_checks) ==
    CASE r.kind = "panic" ->
            Out(r.I, [fs EXCEPT ![Len(fs)] = r.f], "panicked", NoErr)
      [] r.kind = "call" ->
            Out(r.I, Append([fs EXCEPT ![Len(fs)] = r.f],
                            Frame(r.name, r.code, r.I)), "running", NoErr)
      [] OTHER ->
            finish(r.I, [fs EXCEPT ![Len(fs)] = r.f], r.kind, r.err,
                   overflow_checks)

\* The instruction's op, after the fetch.
fetched_op(s, instr, overflow_checks) ==
    exec_op(s.I, s.f, instr, overflow_checks)

\* The result of the current instruction's op.
op_result(I, fs, overflow_checks) ==
    fetched_op(fetch(I, fs[Len(fs)], fs[Len(fs)].code[fs[Len(fs)].pc + 1]),
               fs[Len(fs)].code[fs[Len(fs)].pc + 1], overflow_checks)

\* One pass of the loop for the innermost frame's current instruction.
step(I, fs, overflow_checks) ==
    after_op(op_result(I, fs, overflow_checks), fs, overflow_checks)

\* The loop's condition fails for the innermost frame: the contexts are
\* checked for balance and execute_code returns.
returned(c, fs, overflow_checks) ==
    IF c.kind = "panic" THEN Out(c.I, fs, "panicked", NoErr)
    ELSE unwind(c.I, SubSeq(fs, 1, Len(fs) - 1), c.kind, c.err,
                overflow_checks)

return(I, fs, overflow_checks) ==
    returned(cleanup_contexts(I, fs[Len(fs)].contexts, TRUE), fs,
             overflow_checks)

\* ----------------------------------------------------------------- actions

\* The record kept of the last step: the instruction, the result of its op,
\* and the interpreter and frames it started from.
Last(op, instr, kind, err, I, fs, out_err) ==
    [op |-> op, instr |-> instr, kind |-> kind, err |-> err, pre |-> I,
     pre_frames |-> fs, out_err |-> out_err, val |-> NoneV]

NoInstr == Instr("", NoneV, NoLoc)

Commit(out) ==
    /\ SetCur(out.I)
    /\ frames' = out.frames
    /\ status' = out.status

AtInstruction(op) ==
    /\ status = "running"
    /\ frames # << >>
    /\ frames[Len(frames)].pc < Len(frames[Len(frames)].code)
    /\ frames[Len(frames)].code[frames[Len(frames)].pc + 1].op = op

\* The step's outcome becomes the next state; the record of the step keeps
\* the result r of the instruction's op.
Record(op, r, out) ==
    /\ Commit(out)
    /\ last' = Last(op,
                    IF op = "Return" THEN NoInstr
                    ELSE frames[Len(frames)].code[frames[Len(frames)].pc + 1],
                    r.kind, r.err, Cur, frames, out.err)

\* One pass of the loop of execute_code on an instruction with the given op.
Run(op) ==
    /\ \E overflow_checks \in BOOLEAN :
           Record(op, op_result(Cur, frames, overflow_checks),
                  step(Cur, frames, overflow_checks))
    /\ UNCHANGED pair

DefVariable == AtInstruction("DefVariable") /\ Run("DefVariable")
DefConstant == AtInstruction("DefConstant") /\ Run("DefConstant")
ReadVariable == AtInstruction("ReadVariable") /\ Run("ReadVariable")
WriteVariable == AtInstruction("WriteVariable") /\ Run("WriteVariable")
Execute == AtInstruction("Execute") /\ Run("Execute")
PushConstantValue == AtInstruction("PushConstantValue") /\ Run("PushConstantValue")
MarkCatch == AtInstruction("MarkCatch") /\ Run("MarkCatch")
UnmarkCatch == AtInstruction("UnmarkCatch") /\ Run("UnmarkCatch")
MarkContext == AtInstruction("MarkContext") /\ Run("MarkContext")
ReleaseContext == AtInstruction("ReleaseContext") /\ Run("ReleaseContext")
Jump == AtInstruction("Jump") /\ Run("Jump")
JumpIfZero == AtInstruction("JumpIfZero") /\ Run("JumpIfZero")
JumpIfNotZero == AtInstruction("JumpIfNotZero") /\ Run("JumpIfNotZero")
JumpTarget == AtInstruction("JumpTarget") /\ Run("JumpTarget")

\* The innermost block has run to its end and execute_code returns.
Return ==
    /\ status = "running"
    /\ frames # << >>
    /\ frames[Len(frames)].pc >= Len(frames[Len(frames)].code)
    /\ \E overflow_checks \in BOOLEAN :
           Record("Return",
                  cleanup_contexts(Cur, frames[Len(frames)].contexts, TRUE),
                  return(Cur, frames, overflow_checks))
    /\ UNCHANGED pair

\* ------------------------------------------------------ the initial state

\* SorthInterpreter::new.
NewInterpreter ==
    [stack |-> << >>, heap |-> << >>, variables |-> CL_new,
     dictionary |-> Dictionary_new, word_handlers |-> CL_new,
     data_definitions |-> CL_new, call_stack |-> << >>,
     current_location |-> NoLoc, constructors |-> << >>,
     search_paths |-> << >>]

\* The built-in words of the model, by name.
BuiltIns ==
    << <<"dup", "word_dup", <<"value", "--", "value", "value">> >>,
       <<"drop", "word_drop", <<"value", "--">> >>,
       <<"pick", "word_pick", <<"n", "--", "value">> >>,
       <<"push-to", "word_push_to", <<"n", "--", "<updated-stack>>">> >>,
       <<"/", "word_divide", <<"a", "b", "--", "result">> >>,
       <<"=", "word_equal", <<"a", "b", "--", "bool">> >>,
       <<"[]!", "word_array_write_index",
         <<"value", "index", "array", "--">> >>,
       <<"[].push_back!", "word_push_back", <<"value", "array", "--">> >>,
       <<"+", "word_add", <<"a", "b", "--", "result">> >>,
       <<"{}.=", "word_hash_compare", <<"a", "b", "--", "was-match">> >>,
       <<"[]@", "word_array_read_index", <<"index", "array", "--", "value">> >>,
       <<"[].delete", "word_array_delete", <<"index", "array", "--">> >>,
       <<"[].pop_front!", "word_pop_front", <<"array", "--", "value">> >>,
       <<"[].pop_back!", "word_pop_back", <<"array", "--", "value">> >>,
       <<"buffer.int!", "word_buffer_write_int",
         <<"value", "buffer", "byte_size", "--">> >>,
       <<"buffer.int@", "word_buffer_read_int",
         <<"buffer", "byte_size", "is_signed", "--", "value">> >>,
       <<"buffer.float!", "word_buffer_write_float",
         <<"value", "buffer", "byte_size", "--">> >>,
       <<"buffer.string!", "word_buffer_write_string",
         <<"value", "buffer", "size", "--">> >>,
       <<"buffer.string@", "word_buffer_read_string",
         <<"size", "buffer", "--", "value">> >>,
       <<"buffer.position!", "word_buffer_set_position",
         <<"position", "buffer", "--">> >>,
       <<"swap", "word_swap", <<"a", "b", "--", "b", "a">> >>,
       <<"over", "word_over", <<"a", "b", "--", "b", "a", "b">> >>,
       <<"rot", "word_rot", <<"a", "b", "c", "--", "c", "a", "b">> >>,
       <<"stack.depth", "word_stack_depth", <<"--", "depth">> >>,
       <<"[].new", "word_array_new", <<"--", "array">> >>,
       <<"[].size@", "word_array_size", <<"array", "--", "size">> >>,
       <<"buffer.size@", "word_buffer_size", <<"--", "size">> >>,
       <<"reset", "word_reset", <<"--">> >> >>

RECURSIVE register_words(_, _)
register_words(I, words) ==
    IF words = << >> THEN I
    ELSE register_words(add_word(I, Head(words)[1],
                                 NativeHandler(Head(words)[2])),
                        Tail(words))

\* main: the built-in words are registered, then a context is marked for the
\* user's code.
StartInterpreter == mark_context(register_words(NewInterpreter, BuiltIns))

\* All sequences over S of length at most n.
SeqsUpTo(S, n) == UNION { [1..k -> S] : k \in 0..n }

\* Compiled code: an instruction emitted for a token (Execute and
\* PushConstantValue) carries the token's location, an instruction inserted
\* by one of the op.* words carries none.
Compiled(code) ==
    [i \in 1..Len(code) |->
        IF code[i].op \in {"Execute", "PushConstantValue"}
        THEN [code[i] EXCEPT !.location = i]
        ELSE code[i]]

NoLast == Last("", NoInstr, "ok", NoErr, StartInterpreter, << >>, NoErr)
NoPair ==
    [cloned |-> FALSE, v |-> NoneV, c |-> NoneV, heap0 |-> << >>,
     wrote_clone |-> FALSE, wrote_original |-> FALSE]

\* The interpreter I is about to run `code` as the top level block.
InitWith(I, code) ==
    /\ stack = I.stack
    /\ heap = I.heap
    /\ variables = I.variables
    /\ dictionary = I.dictionary
    /\ word_handlers = I.word_handlers
    /\ data_definitions = I.data_definitions
    /\ call_stack = I.call_stack
    /\ current_location = I.current_location
    /\ constructors = I.constructors
    /\ search_paths = I.search_paths
    /\ frames = << Frame("<toplevel>", code, I) >>
    /\ status = "running"
    /\ last = NoLast
    /\ pair = NoPair

\* The interpreter I runs no block: the host (a native word, a test) calls
\* its operations directly.
HostCalls(I) ==
    /\ stack = I.stack
    /\ heap = I.heap
    /\ variables = I.variables
    /\ dictionary = I.dictionary
    /\ word_handlers = I.word_handlers
    /\ data_definitions = I.data_definitions
    /\ call_stack = I.call_stack
    /\ current_location = I.current_location
    /\ constructors = I.constructors
    /\ search_paths = I.search_paths
    /\ frames = << >>
    /\ status = "running"
    /\ last = NoLast
    /\ pair = NoPair

\* ------------------------------------------- specification: try and catch

\* try 1 0 / catch drop "caught" endcatch
TryDivideByZero ==
    Compiled(<< Instr("MarkCatch", IntV(6), NoLoc),
               Instr("PushConstantValue", IntV(1), NoLoc),
               Instr("PushConstantValue", IntV(0), NoLoc),
               Instr("Execute", StrV("/"), NoLoc),
               Instr("UnmarkCatch", NoneV, NoLoc),
               Instr("Jump", IntV(4), NoLoc),
               Instr("JumpTarget", NoneV, NoLoc),
               Instr("Execute", StrV("drop"), NoLoc),
               Instr("PushConstantValue", StrV("caught"), NoLoc),
               Instr("JumpTarget", NoneV, NoLoc) >>)

CatchInstructions ==
    { Instr("MarkCatch", IntV(1), NoLoc), Instr("MarkCatch", IntV(2), NoLoc),
      Instr("UnmarkCatch", NoneV, NoLoc), Instr("Execute", StrV("/"), NoLoc),
      Instr("Execute", StrV("drop"), NoLoc), Instr("Jump", IntV(2), NoLoc),
      Instr("JumpTarget", NoneV, NoLoc) }

CatchStacks == SeqsUpTo({IntV(0), IntV(1)}, MaxStack)

Init ==
    \/ \E c \in SeqsUpTo(CatchInstructions, MaxCode), s \in CatchStacks :
           InitWith([StartInterpreter EXCEPT !.stack = s], Compiled(c))
    \/ InitWith(StartInterpreter, TryDivideByZero)

Next ==
    \/ MarkCatch
    \/ UnmarkCatch
    \/ Execute
    \/ PushConstantValue
    \/ Jump
    \/ JumpTarget
    \/ Return

Spec == Init /\ [][Next]_vars


\* ------------------------------------------------ properties: try and catch

\* The frame in which the last step's instruction ran.
LastFrame == last.pre_frames[Len(last.pre_frames)]

\* The last step's instruction failed while its frame had a catch location.
FailedUnderCatch ==
    /\ last.kind = "err"
    /\ last.pre_frames # << >>
    /\ LastFrame.catch_locations # << >>

\* C1: when an instruction fails while its execution of a block has an active
\* catch frame, the error is not returned: the block keeps running in the same
\* frame, the innermost catch frame is popped, the error's text is the String
\* on top of the value stack and the pc is the popped frame's handler target;
\* a failure with no catch frame left is returned as the block's error.
C1_CatchConsumesError ==
    /\ FailedUnderCatch =>
           /\ status = "running"
           /\ Len(frames) = Len(last.pre_frames)
           /\ frames[Len(frames)].catch_locations =
                  SubSeq(LastFrame.catch_locations, 1,
                         Len(LastFrame.catch_locations) - 1)
           /\ frames[Len(frames)].pc =
                  LastFrame.catch_locations[Len(LastFrame.catch_locations)]
           /\ stack # << >>
           /\ is_string(stack[Len(stack)])
           /\ stack[Len(stack)] = StrV(ErrToString(last.err))
    /\ ( /\ last.kind = "err"
         /\ Len(last.pre_frames) = 1
         /\ LastFrame.catch_locations = << >> ) =>
           /\ status = "error"
           /\ last.out_err = last.err

\* A caught error whose handler target holds an instruction to run next.
C1_Witness ==
    /\ FailedUnderCatch
    /\ status = "running"
    /\ frames[Len(frames)].pc < Len(frames[Len(frames)].code)
    /\ Len(LastFrame.catch_locations) = 1

\* The last step executed the word / on two Ints with a zero divisor while a
\* catch frame was active.
DividedByZeroUnderCatch ==
    /\ last.op = "Execute"
    /\ last.instr.value = StrV("/")
    /\ LastFrame.catch_locations # << >>
    /\ Len(last.pre.stack) >= 2
    /\ is_int(last.pre.stack[Len(last.pre.stack)])
    /\ is_int(last.pre.stack[Len(last.pre.stack) - 1])
    /\ last.pre.stack[Len(last.pre.stack)].v = 0

\* C8: an integer division by zero inside a try block reaches the catch
\* handler as an error and does not end the interpreter; the run of
\* try 1 0 / catch drop "caught" endcatch ends with exactly the String
\* "caught" on the value stack.
C8_DivideByZeroIsCaught ==
    /\ DividedByZeroUnderCatch =>
           /\ status = "running"
           /\ stack # << >>
           /\ is_string(stack[Len(stack)])
    /\ ( /\ last.pre_frames # << >>
         /\ last.pre_frames[1].code = TryDivideByZero
         /\ status # "running" ) =>
           /\ status = "done"
           /\ stack = << StrV("caught") >>


\* --------------------------------- specification: scopes and scripted words

\* The interpreter after ": w <body> ;" and ": v w ;".
WithScriptedWords(I, body) ==
    add_word(add_word(I, "w", ScriptFunction(Compiled(body))), "v",
             ScriptFunction(Compiled(<< Instr("Execute", StrV("w"), NoLoc) >>)))

ScopeInstructions ==
    { Instr("MarkCatch", IntV(2), NoLoc), Instr("Execute", StrV("w"), NoLoc),
      Instr("Execute", StrV("v"), NoLoc), Instr("MarkContext", NoneV, NoLoc),
      Instr("ReleaseContext", NoneV, NoLoc),
      Instr("DefVariable", StrV("drop"), NoLoc) }

BodyInstructions ==
    { Instr("MarkContext", NoneV, NoLoc), Instr("ReleaseContext", NoneV, NoLoc),
      Instr("MarkCatch", IntV(1), NoLoc),
      Instr("Execute", StrV("undefined"), NoLoc) }

InitScope ==
    \E c \in SeqsUpTo(ScopeInstructions, MaxCode),
       body \in SeqsUpTo(BodyInstructions, MaxBody) :
        InitWith(WithScriptedWords(StartInterpreter, body), Compiled(c))

NextScope ==
    \/ MarkCatch
    \/ Execute
    \/ MarkContext
    \/ ReleaseContext
    \/ DefVariable
    \/ Return

SpecScope == InitScope /\ [][NextScope]_vars


\* --------------------------- properties: scopes and scripted words

\* The outermost of the blocks that returned during the last step.
ReturnedFrame == last.pre_frames[Len(frames) + 1]

\* Blocks returned during the last step.
BlocksReturned ==
    /\ status # "panicked"
    /\ Len(frames) < Len(last.pre_frames)

\* The number of scopes a returned block must leave behind: the number at its
\* entry, less the scope ScriptFunction::call marks around a scripted word.
DepthOwed ==
    IF Len(frames) = 0 THEN ReturnedFrame.entry_depth
    ELSE ReturnedFrame.entry_depth - 1

\* C2: when execute_code returns, normally or with an error, every scope a
\* MarkContext of that execution pushed has been popped: the dictionary and
\* the variable list have the depth they had at entry.
C2_ScopeDepthRestored ==
    BlocksReturned =>
        /\ Len(dictionary) = DepthOwed
        /\ Len(variables) = DepthOwed

\* The names some scope of the dictionary d defines.
DefinedNames(d) == UNION { DOMAIN d[k] : k \in 1..Len(d) }

\* The dictionaries d and e resolve every name alike.
SameLookups(d, e) ==
    \A name \in DefinedNames(d) \cup DefinedNames(e) :
        /\ Dictionary_has(d, name) = Dictionary_has(e, name)
        /\ Dictionary_has(d, name) =>
               Dictionary_try_get(d, name) = Dictionary_try_get(e, name)

\* C3: a ReleaseContext executed after a MarkContext of the same execution
\* pops one scope from the dictionary and from the variable list: what was
\* defined in that scope is no longer found and what it shadowed is found
\* again.
C3_ReleaseContextPopsScope ==
    (last.op = "ReleaseContext" /\ last.kind = "ok") =>
        /\ Len(dictionary) = Len(last.pre.dictionary) - 1
        /\ Len(variables) = Len(last.pre.variables) - 1
        /\ SameLookups(dictionary,
                       Dictionary_release_context(last.pre.dictionary))

\* The last step's instruction failed in a called scripted word's block that
\* had no catch location of its own, while a calling block had one.
CalleeFailedUnderCallersCatch ==
    /\ last.kind = "err"
    /\ last.op # "Return"
    /\ Len(last.pre_frames) >= 2
    /\ LastFrame.catch_locations = << >>
    /\ \E k \in 1..(Len(last.pre_frames) - 1) :
           last.pre_frames[k].catch_locations # << >>

\* The innermost calling block with a catch location.
CatchingCaller ==
    CHOOSE k \in 1..(Len(last.pre_frames) - 1) :
        /\ last.pre_frames[k].catch_locations # << >>
        /\ \A j \in (k + 1)..Len(last.pre_frames) :
               last.pre_frames[j].catch_locations = << >>

\* C9: an error raised in a called scripted word without a catch frame of its
\* own reaches the innermost catch frame of the calling code, at any call
\* depth; when the handler is about to run, the scopes of the abandoned
\* callees have been released and their call stack entries popped.
C9_CalleeErrorReachesCallersCatch ==
    CalleeFailedUnderCallersCatch =>
        /\ status = "running"
        /\ Len(frames) = CatchingCaller
        /\ frames[CatchingCaller].pc =
               last.pre_frames[CatchingCaller].catch_locations[
                   Len(last.pre_frames[CatchingCaller].catch_locations)]
        /\ stack # << >>
        /\ stack[Len(stack)] = StrV(ErrToString(last.err))
        /\ Len(dictionary) = last.pre_frames[CatchingCaller + 1].entry_depth - 1
        /\ Len(variables) = last.pre_frames[CatchingCaller + 1].entry_depth - 1
        /\ Len(call_stack) = last.pre_frames[CatchingCaller + 1].entry_calls - 1


\* ------------------------------------------ specification: native words

WordNames == {"=", "pick", "push-to", "+"}

WordValues ==
    { IntV(0), IntV(1), IntV(2), FloatV(2), FloatV(3), BoolV(TRUE),
      BoolV(FALSE), NoneV, StrV(""), StrV("1"), StrV("foo"), WordToken("w") }

\* One word is executed on a stack of arguments.
InitWords ==
    \E w \in WordNames, s \in SeqsUpTo(WordValues, MaxArgs) :
        InitWith([StartInterpreter EXCEPT !.stack = s],
                 Compiled(<< Instr("Execute", StrV(w), NoLoc) >>))

NextWords ==
    \/ Execute
    \/ Return

SpecWords == InitWords /\ [][NextWords]_vars

\* ------------------------------------------------- properties: native words

\* The last step executed the named word.
Executed(word) ==
    /\ last.op = "Execute"
    /\ last.instr.value = StrV(word)

\* The stack the last step started from, without its top n values.
Below(n) == SubSeq(last.pre.stack, 1, Len(last.pre.stack) - n)

\* The value n positions below the top of the stack the last step started
\* from.
Arg(n) == last.pre.stack[Len(last.pre.stack) - n]

\* Equality of two numeric values after widening both to the most general
\* kind of the pair: Float over Int over Bool.
WidenedEqual(a, b) ==
    IF is_float(a) \/ is_float(b) THEN get_float_val(a) = get_float_val(b)
    ELSE IF is_int(a) \/ is_int(b) THEN get_int_val(a) = get_int_val(b)
    ELSE get_bool_val(a) = get_bool_val(b)

\* C4: the word = applied to two numeric values replaces them by the Bool
\* that tells whether they are equal after widening to the most general
\* numeric kind of the pair; two Ints are equal only if they are the same
\* integer.
C4_NumericEqualityWidens ==
    ( /\ Executed("=")
      /\ Len(last.pre.stack) >= 2
      /\ both_are_numeric(Arg(1), Arg(0)) ) =>
        /\ last.kind = "ok"
        /\ stack = Append(Below(2), BoolV(WidenedEqual(Arg(1), Arg(0))))

\* The sequence s without the value n positions below its last.
WithoutNth(s, n) ==
    SubSeq(s, 1, Len(s) - n - 1) \o SubSeq(s, Len(s) - n + 1, Len(s))

\* The sequence s with v inserted so that n values of s lie above it.
InsertedBelow(s, v, n) ==
    SubSeq(s, 1, Len(s) - n) \o << v >> \o SubSeq(s, Len(s) - n + 1, Len(s))

\* C10: pick with index n moves the value n positions below the top of the
\* stack to the top, push-to with index n moves the top so that it lies n
\* positions below the new top, the other values keep their order, and an
\* index outside the stack is an error of the word, not an abort.
C10_PickAndPushToCountFromTop ==
    /\ ( /\ Executed("pick")
         /\ last.pre.stack # << >>
         /\ is_int(Arg(0)) ) =>
           IF Arg(0).v < Len(Below(1))
           THEN /\ last.kind = "ok"
                /\ stack = Append(WithoutNth(Below(1), Arg(0).v),
                                  Below(1)[Len(Below(1)) - Arg(0).v])
           ELSE last.kind = "err"
    /\ ( /\ Executed("push-to")
         /\ last.pre.stack # << >>
         /\ is_int(Arg(0)) ) =>
           IF Arg(0).v < Len(Below(1))
           THEN /\ last.kind = "ok"
                /\ stack = InsertedBelow(Below(2), Arg(1), Arg(0).v)
           ELSE last.kind = "err"


\* ---------------------------------------------- specification: deep clone

\* The values a cell of a heap with n cells before it can hold.
CellValues(n, h) ==
    {IntV(0), IntV(1)}
        \cup { [t |-> h[p].kind, v |-> p] : p \in 1..n }

\* The heaps that extend h by one array or data object.
Extended(h) ==
    { Append(h, [kind |-> k, def |-> IF k = "Vec" THEN "" ELSE "point",
                 items |-> items]) :
        k \in {"Vec", "DataObject"},
        items \in SeqsUpTo(CellValues(Len(h), h), 2) }

RECURSIVE HeapsUpTo(_)
\* The heaps of at most n cells, each holding values and earlier cells.
HeapsUpTo(n) ==
    IF n = 0 THEN { << >> }
    ELSE HeapsUpTo(n - 1)
             \cup UNION { Extended(h) : h \in { g \in HeapsUpTo(n - 1) :
                                                   Len(g) = n - 1 } }

\* The values over the heap h that are cloned: a number, an array or a data
\* object, and a block of code that pushes one of them.
CloneValues(h) ==
    CellValues(Len(h), h)
        \cup { CodeV(<< Instr("PushConstantValue", v, NoLoc) >>) :
                 v \in CellValues(Len(h), h) }

RECURSIVE Reach(_, _)
\* The cells of the heap h reachable from the value v.
Reach(v, h) ==
    IF v.t \in {"Vec", "DataObject"}
    THEN {v.v} \cup UNION { Reach(h[v.v].items[i], h) :
                               i \in 1..Len(h[v.v].items) }
    ELSE IF v.t = "Code"
    THEN UNION { Reach(v.code[i].value, h) : i \in 1..Len(v.code) }
    ELSE {}

RECURSIVE Tree(_, _)
\* The value v with every reference into the heap h replaced by what it
\* refers to.
Tree(v, h) ==
    IF v.t \in {"Vec", "DataObject"}
    THEN [t |-> v.t, def |-> h[v.v].def,
          items |-> [i \in 1..Len(h[v.v].items) |->
                        Tree(h[v.v].items[i], h)]]
    ELSE IF v.t = "Code"
    THEN [t |-> "Code",
          code |-> [i \in 1..Len(v.code) |->
                       [op |-> v.code[i].op,
                        value |-> Tree(v.code[i].value, h)]]]
    ELSE v

InitClone ==
    \E h \in HeapsUpTo(MaxHeap) :
        InitWith([StartInterpreter EXCEPT !.heap = h], << >>)

\* The heap and the record of the clone change, nothing else does.
OnlyHeap(h, p) ==
    /\ heap' = h
    /\ pair' = p
    /\ UNCHANGED << stack, variables, dictionary, word_handlers,
                    data_definitions, call_stack, current_location,
                    constructors, search_paths, frames,
                    status, last >>

Cloned(v, r) ==
    OnlyHeap(r.heap, [cloned |-> TRUE, v |-> v, c |-> r.val, heap0 |-> r.heap,
                      wrote_clone |-> FALSE, wrote_original |-> FALSE])

\* A value is deep-cloned.
DeepClone ==
    /\ ~ pair.cloned
    /\ \E v \in CloneValues(heap) : Cloned(v, deep_clone(v, heap))

\* The word []! writes `value` at `index` of the array in cell p.
ArrayWritten(p, index, value) ==
    word_array_write_index([Cur EXCEPT !.stack =
                                << value, IntV(index), VecV(p) >>])

Written(r, p) ==
    /\ r.kind = "ok"
    /\ OnlyHeap(r.I.heap, p)

\* An array reachable from the clone is written.
WriteClone ==
    /\ pair.cloned
    /\ \E p \in Reach(pair.c, heap) :
           /\ heap[p].kind = "Vec"
           /\ \E index \in 0..(Len(heap[p].items) - 1) :
                  Written(ArrayWritten(p, index, IntV(2)),
                          [pair EXCEPT !.wrote_clone = TRUE])

\* An array reachable from the cloned value is written.
WriteOriginal ==
    /\ pair.cloned
    /\ \E p \in Reach(pair.v, heap) :
           /\ heap[p].kind = "Vec"
           /\ \E index \in 0..(Len(heap[p].items) - 1) :
                  Written(ArrayWritten(p, index, IntV(2)),
                          [pair EXCEPT !.wrote_original = TRUE])

NextClone ==
    \/ DeepClone
    \/ WriteClone
    \/ WriteOriginal

SpecClone == InitClone /\ [][NextClone]_vars

\* --------------------------------------------------- properties: deep clone

\* C5: the deep clone of a value is structurally equal to the value and
\* shares no container with it: writes to containers reachable from the
\* clone leave the value and all it reaches unchanged, and writes to
\* containers reachable from the value leave the clone unchanged.
C5_DeepCloneIsEqualAndDisjoint ==
    pair.cloned =>
        /\ Tree(pair.c, pair.heap0) = Tree(pair.v, pair.heap0)
        /\ Reach(pair.c, heap) \cap Reach(pair.v, heap) = {}
        /\ ~ pair.wrote_original =>
               Tree(pair.v, heap) = Tree(pair.v, pair.heap0)
        /\ ~ pair.wrote_clone =>
               Tree(pair.c, heap) = Tree(pair.c, pair.heap0)

\* The same for the values that are not code.
DeepCloneOfContainers ==
    (pair.cloned /\ ~ is_code(pair.v)) =>
        /\ Tree(pair.c, pair.heap0) = Tree(pair.v, pair.heap0)
        /\ Reach(pair.c, heap) \cap Reach(pair.v, heap) = {}
        /\ ~ pair.wrote_original =>
               Tree(pair.v, heap) = Tree(pair.v, pair.heap0)
        /\ ~ pair.wrote_clone =>
               Tree(pair.c, heap) = Tree(pair.c, pair.heap0)


\* ------------------------------------------------ specification: constants

\* The cells of the array literal [ [ 1 ] , 1 ]: the literal is cell 2.
LiteralHeap == << VecCell(<< IntV(1) >>), VecCell(<< VecV(1), IntV(1) >>) >>

Literal == VecV(Len(LiteralHeap))

\* The interpreter whose code holds the literal.
WithLiteral == [StartInterpreter EXCEPT !.heap = LiteralHeap]

\* The interpreter after the literal was pushed and named k by DefConstant.
WithConstant ==
    define_constant(push_constant_value(WithLiteral, Literal).I, StrV("k")).I

ConstInstructions ==
    { Instr("PushConstantValue", Literal, NoLoc),
      Instr("DefConstant", StrV("k"), NoLoc),
      Instr("Execute", StrV("k"), NoLoc),
      Instr("Execute", StrV("[]!"), NoLoc),
      Instr("Execute", StrV("[].push_back!"), NoLoc) }

InitConst ==
    \E c \in SeqsUpTo(ConstInstructions, MaxCode), s \in CatchStacks,
       I \in {WithLiteral, WithConstant} :
        InitWith([I EXCEPT !.stack = s], Compiled(c))

NextConst ==
    \/ PushConstantValue
    \/ DefConstant
    \/ Execute
    \/ Return

SpecConst == InitConst /\ [][NextConst]_vars

\* --------------------------------------------------- properties: constants

\* The values stored by the constant words of the interpreter I.
Constants(I) ==
    UNION { { I.word_handlers[k].items[i].handler.value :
                i \in 1..Len(I.word_handlers[k].items) } :
            k \in 1..Len(I.word_handlers) }

\* The value the word named `name` stores in the interpreter I.
ConstantOf(I, name) ==
    CL_index(I.word_handlers,
             Dictionary_try_get(I.dictionary, name).handler_index).handler.value

\* The last step pushed a value that is `tree` and is made of cells that did
\* not exist before the step, and changed no cell that did.
PushedFresh(tree) ==
    /\ stack = Append(last.pre.stack, stack[Len(stack)])
    /\ Tree(stack[Len(stack)], heap) = tree
    /\ Reach(stack[Len(stack)], heap) \cap DOMAIN last.pre.heap = {}
    /\ \A p \in DOMAIN last.pre.heap : heap[p] = last.pre.heap[p]

\* C6: every execution of a PushConstantValue instruction and of a word
\* defined by DefConstant pushes a fresh deep clone: the value pushed is the
\* literal, or the constant as it was defined, whatever was written since to
\* the values pushed before, it shares no container with any value that
\* exists, and no step changes what a literal or a constant holds.
C6_ConstantsPushFreshClones ==
    /\ (last.op = "PushConstantValue" /\ last.kind = "ok") =>
           PushedFresh(Tree(last.instr.value, LiteralHeap))
    /\ (Executed("k") /\ last.kind = "ok") =>
           PushedFresh(Tree(ConstantOf(last.pre, "k"), last.pre.heap))
    /\ \A c \in Constants(last.pre) : Tree(c, heap) = Tree(c, last.pre.heap)
    /\ Tree(Literal, heap) = Tree(Literal, LiteralHeap)

\* An array pushed by an earlier execution was written before the last step.
WrittenBefore ==
    \E p \in DOMAIN last.pre.heap :
        /\ p > Len(LiteralHeap)
        /\ \A q \in DOMAIN LiteralHeap :
               Tree(VecV(p), last.pre.heap) # Tree(VecV(q), LiteralHeap)

\* The literal or the constant is pushed after an array pushed earlier was
\* written.
C6_Witness ==
    /\ last.op = "PushConstantValue" \/ Executed("k")
    /\ last.kind = "ok"
    /\ is_vec(stack[Len(stack)])
    /\ WrittenBefore


\* ------------------------------------------------ specification: variables

\* The interpreter after DefVariable has defined n variables.
RECURSIVE WithVariables(_)
WithVariables(n) ==
    IF n = 0 THEN StartInterpreter
    ELSE define_variable(WithVariables(n - 1),
                         StrV(IF n = 1 THEN "x" ELSE "y")).I

VarInstructions ==
    { Instr("DefVariable", StrV("z"), NoLoc), Instr("MarkContext", NoneV, NoLoc),
      Instr("ReadVariable", NoneV, NoLoc), Instr("WriteVariable", NoneV, NoLoc),
      Instr("PushConstantValue", IntV(0), NoLoc) }

InitVars ==
    \E c \in SeqsUpTo(VarInstructions, MaxCode),
       s \in SeqsUpTo({IntV(0), IntV(1)}, MaxArgs), n \in 0..2 :
        InitWith([WithVariables(n) EXCEPT !.stack = s], Compiled(c))

NextVars ==
    \/ DefVariable
    \/ MarkContext
    \/ ReadVariable
    \/ WriteVariable
    \/ PushConstantValue
    \/ Return

SpecVars == InitVars /\ [][NextVars]_vars

\* --------------------------------------------------- properties: variables

RECURSIVE Slots(_)
\* The variables of a variable list in the order of their definition: slot i
\* is element i + 1.
Slots(l) ==
    IF l = << >> THEN << >>
    ELSE Slots(SubSeq(l, 1, Len(l) - 1)) \o l[Len(l)].items

\* The index on top of the stack the last step started from addresses a slot.
AddressesSlot == Arg(0).v \in 0..(Len(Slots(last.pre.variables)) - 1)

\* C7: DefVariable adds a slot that holds None and changes no other slot;
\* WriteVariable with index i stores the value in slot i and changes no other
\* slot; ReadVariable with index i pushes what slot i holds; MarkContext and
\* the other instructions change no slot; a read or a write with an index
\* that addresses no slot is an error.
C7_VariablesKeepWhatWasWritten ==
    /\ (last.op = "DefVariable" /\ last.kind = "ok") =>
           Slots(variables) = Append(Slots(last.pre.variables), NoneV)
    /\ ( /\ last.op = "WriteVariable"
         /\ Len(last.pre.stack) >= 2
         /\ is_int(Arg(0)) ) =>
           IF AddressesSlot
           THEN /\ last.kind = "ok"
                /\ stack = Below(2)
                /\ Slots(variables) =
                       [Slots(last.pre.variables) EXCEPT ![Arg(0).v + 1] = Arg(1)]
           ELSE last.kind = "err"
    /\ ( /\ last.op = "ReadVariable"
         /\ last.pre.stack # << >>
         /\ is_int(Arg(0)) ) =>
           IF AddressesSlot
           THEN /\ last.kind = "ok"
                /\ stack = Append(Below(1),
                                  Slots(last.pre.variables)[Arg(0).v + 1])
           ELSE last.kind = "err"
    /\ ( /\ last.op \in {"MarkContext", "ReadVariable", "PushConstantValue"}
         /\ last.kind = "ok" ) =>
           Slots(variables) = Slots(last.pre.variables)

\* A variable written before a MarkContext is read after it, and the value
\* written is read.
C7_Witness ==
    /\ last.op = "ReadVariable"
    /\ last.kind = "ok"
    /\ stack[Len(stack)] = IntV(1)
    /\ Len(variables) > Len(StartInterpreter.variables)
    /\ Len(frames[1].code) = 3
    /\ frames[1].code[1].op = "WriteVariable"

\* The String a value stands for where a string is needed; a Bool prints as
\* true or false.
StringForm(v) ==
    CASE v.t = "None" -> ""
      [] v.t = "Int" -> ToString(v.v)
      [] v.t = "Float" -> FloatStr(v.v)
      [] v.t = "Bool" -> IF v.v = 1 THEN "true" ELSE "false"
      [] OTHER -> v.s

Stringable(v) ==
    \/ v.t \in {"None", "Int", "Float", "String"}
    \/ (v.t = "Token" /\ v.kind \in {"String", "Word"})

StrictlyNumeric(v) == v.t \in {"Int", "Float", "Bool"}

\* What `a b +` is to push.
Sum(a, b) ==
    IF (Stringable(a) \/ Stringable(b))
       /\ ~ (StrictlyNumeric(a) /\ StrictlyNumeric(b))
    THEN StrV(StringForm(a) \o StringForm(b))
    ELSE IF a.t = "Float" \/ b.t = "Float"
    THEN FloatV((IF a.t = "Float" THEN a.v ELSE 2 * a.v)
                + (IF b.t = "Float" THEN b.v ELSE 2 * b.v))
    ELSE IntV(a.v + b.v)

\* The last step ran + on two operands.
Added ==
    /\ Executed("+")
    /\ Len(last.pre.stack) >= 2

\* C12: + pops b and then a and pushes exactly one result: the String of
\* a's string form followed by b's when either operand is stringable and the
\* two are not both strictly numeric, otherwise the f64 sum when either is a
\* Float, otherwise the i64 sum.
C12_AddConcatenatesOrSums ==
    Added =>
        /\ last.kind = "ok"
        /\ stack = Append(Below(2), Sum(Arg(1), Arg(0)))

\* The same on operands that are Ints, Floats and Strings only.
AddOfNumbersAndStrings ==
    (Added /\ {Arg(0).t, Arg(1).t} \subseteq {"Int", "Float", "String"}) =>
        /\ last.kind = "ok"
        /\ stack = Append(Below(2), Sum(Arg(1), Arg(0)))

\* + ran on a Bool and a String, on two Bools.
AddedBoolAndString == Added /\ Arg(1).t = "Bool" /\ Arg(0).t = "String"
AddedBools == Added /\ Arg(1).t = "Bool" /\ Arg(0).t = "Bool"

\* The last step ran = on two values of different kinds that are not both
\* numeric.
ComparedAcrossKinds ==
    /\ Executed("=")
    /\ Len(last.pre.stack) >= 2
    /\ Arg(0).t # Arg(1).t
    /\ ~ (StrictlyNumeric(Arg(0)) /\ StrictlyNumeric(Arg(1)))

\* C13: equality between two values of different kinds that are not both
\* numeric is false, in either operand order: Int 1 and String "1", None and
\* Int 0, None and the empty String are all unequal.
C13_CrossKindEqualityIsFalse ==
    ComparedAcrossKinds =>
        /\ last.kind = "ok"
        /\ stack = Append(Below(2), BoolV(FALSE))

\* = ran on Int 1 and String "1", on None and Int 0, on None and "".
ComparedIntAndString ==
    /\ ComparedAcrossKinds
    /\ {Arg(0), Arg(1)} \in {{IntV(1), StrV("1")}, {NoneV, IntV(0)},
                              {NoneV, StrV("")}}

\* The three pairs of the claim all compare equal, in either order.
ExamplePairsCompareEqual ==
    ComparedIntAndString => stack = Append(Below(2), BoolV(TRUE))

\* ------------------------------------------- specification: hash maps

HashKeys == { StrV("a"), StrV("b") }
HashValues == { StrV("x"), StrV("y"), BoolV(TRUE) }

\* The hash maps with some of the keys.
HashMaps == UNION { [ks -> HashValues] : ks \in SUBSET HashKeys }

\* Two hash maps are compared with {}.=; the stack holds the two, or one of
\* them twice.
InitHash ==
    \E a \in HashMaps, b \in HashMaps, s \in [1..2 -> 1..2] :
        InitWith([StartInterpreter EXCEPT
                     !.heap = << HashCell(a), HashCell(b) >>,
                     !.stack = << HashV(s[1]), HashV(s[2]) >>],
                 Compiled(<< Instr("Execute", StrV("{}.="), NoLoc) >>))

NextHash ==
    \/ Execute
    \/ Return

SpecHash == InitHash /\ [][NextHash]_vars

\* ------------------------------------------------- properties: hash maps

\* The last step compared two hash maps; MapA is the first operand, MapB the
\* second (the top of the stack).
ComparedMaps == Executed("{}.=") /\ last.kind = "ok"
MapA == last.pre.heap[Arg(1).v].items
MapB == last.pre.heap[Arg(0).v].items

\* Same keys, and equal values under every key.
SameEntries(a, b) ==
    /\ DOMAIN a = DOMAIN b
    /\ \A k \in DOMAIN a : a[k] = b[k]

\* C14: {}.= is structural and symmetric: two maps compare equal exactly
\* when they have the same keys and equal values under every key, so a = b
\* implies b = a, and a map never equals a map with an additional key.
C14_HashMapEqualityIsStructural ==
    ComparedMaps =>
        /\ stack = Append(Below(2), BoolV(SameEntries(MapA, MapB)))
        /\ ValueHashEq(MapA, MapB, heap) = ValueHashEq(MapB, MapA, heap)

\* The first operand's keys are some, not all, of the second's.
ComparedWithLargerMap ==
    /\ ComparedMaps
    /\ DOMAIN MapA \subseteq DOMAIN MapB
    /\ DOMAIN MapA # DOMAIN MapB

\* Maps with the same keys are compared as the claim says.
SameKeysComparedByValues ==
    (ComparedMaps /\ DOMAIN MapA = DOMAIN MapB) =>
        stack = Append(Below(2), BoolV(SameEntries(MapA, MapB)))

\* ------------------------------------------------ specification: arrays

MaxArray == 2
ArrayWords == {"[]!", "[]@", "[].delete", "[].pop_front!", "[].pop_back!"}
ArrayItems == { IntV(0), IntV(1) }

\* One array word is executed on an array of up to MaxArray items; below the
\* array the stack holds an index from one before the first item to one
\* after the length, and a value to write.
InitArray ==
    \E w \in ArrayWords, items \in SeqsUpTo(ArrayItems, MaxArray),
       index \in -1..(MaxArray + 1) :
        InitWith([StartInterpreter EXCEPT
                     !.heap = << VecCell(items) >>,
                     !.stack = << IntV(2), IntV(index), VecV(1) >>],
                 Compiled(<< Instr("Execute", StrV(w), NoLoc) >>))

NextArray ==
    \/ Execute
    \/ Return

SpecArray == InitArray /\ [][NextArray]_vars

\* --------------------------------------------------- properties: arrays

\* The items of the array before the last step, and the index given.
ItemsBefore == last.pre.heap[1].items
IndexGiven == Arg(1).v

\* The last step read, wrote or deleted at an index outside the array.
IndexedOutside ==
    /\ \E w \in {"[]!", "[]@", "[].delete"} : Executed(w)
    /\ IndexGiven \notin 0..(Len(ItemsBefore) - 1)

\* The last step popped from an empty array.
PoppedFromEmpty ==
    /\ Executed("[].pop_front!") \/ Executed("[].pop_back!")
    /\ ItemsBefore = << >>

\* C15: reading, writing or deleting at index n of an array of length n, or
\* at any index outside 0..n-1, returns an error and leaves the array
\* unchanged; [].pop_front! and [].pop_back! on an empty array return an
\* error; none of them aborts.
C15_ArrayIndexOutOfBoundsIsAnError ==
    /\ IndexedOutside => (last.kind = "err" /\ heap = last.pre.heap)
    /\ PoppedFromEmpty => (last.kind = "err" /\ heap = last.pre.heap)
    /\ status # "panicked"

\* An index beyond the length, or before the first item, is an error for
\* the three words, and so is a pop from an empty array.
BeyondLengthIsAnError ==
    /\ (IndexedOutside /\ IndexGiven # Len(ItemsBefore)) =>
           (last.kind = "err" /\ heap = last.pre.heap)
    /\ PoppedFromEmpty => (last.kind = "err" /\ heap = last.pre.heap)

\* The index given is the length of the array.
IndexedAtLength == IndexedOutside /\ IndexGiven = Len(ItemsBefore)

\* At the length, reading and writing abort and deleting succeeds.
AtLengthAbortsOrSucceeds ==
    IndexedAtLength =>
        /\ heap = last.pre.heap
        /\ last.kind = (IF Executed("[].delete") THEN "ok" ELSE "panic")

\* ------------------------------------- specification: byte buffer writes

BufferLen == 8
ByteSizes == {1, 2, 4, 8}
Fills == {0, 255}

\* A buffer of BufferLen bytes, all of them `fill`, with its cursor at
\* `position`.
FilledBuffer(fill, position) ==
    BufferCell(ByteBuffer([i \in 1..BufferLen |-> fill], position))

\* The value each write word is given.
WriteWords ==
    { << "buffer.int!", IntV(-2) >>, << "buffer.int!", IntV(258) >>,
      << "buffer.float!", FloatV(3) >>, << "buffer.float!", FloatV(-2) >>,
      << "buffer.string!", StrV(<< 97, 98 >>) >> }

\* One write word is executed on a buffer whose cursor is anywhere from the
\* start to the end.
InitBufferWrite ==
    \E w \in WriteWords, size \in ByteSizes, position \in 0..BufferLen,
       fill \in Fills :
        InitWith([StartInterpreter EXCEPT
                     !.heap = << FilledBuffer(fill, position) >>,
                     !.stack = << w[2], BufferV(1), IntV(size) >>],
                 Compiled(<< Instr("Execute", StrV(w[1]), NoLoc) >>))

NextBufferWrite ==
    \/ Execute
    \/ Return

SpecBufferWrite == InitBufferWrite /\ [][NextBufferWrite]_vars

\* ------------------------------------------- properties: byte buffer writes

\* The buffer before the last step.
BufferBefore == last.pre.heap[1].items

\* The last step ran a write word with a size that does not fit between the
\* cursor and the end of the buffer.
WroteBeyondEnd ==
    /\ \E w \in WriteWords : Executed(w[1])
    /\ BufferBefore.current_position + Arg(0).v > Len(BufferBefore.buffer)

\* C16: a write of an integer, a float or a string with position + size >
\* length returns an error and leaves every byte of the buffer and the
\* cursor unchanged.
C16_WriteBeyondEndIsAnError ==
    WroteBeyondEnd => (last.kind = "err" /\ heap = last.pre.heap)

\* The same for the words that write an integer or a string.
IntAndStringWritesBeyondEndAreErrors ==
    (WroteBeyondEnd /\ ~ Executed("buffer.float!")) =>
        (last.kind = "err" /\ heap = last.pre.heap)

\* A float of 4 or 8 bytes was written beyond the end.
WroteFloatBeyondEnd ==
    /\ WroteBeyondEnd
    /\ Executed("buffer.float!")
    /\ Arg(0).v \in {4, 8}

FloatWriteBeyondEndAborts == WroteFloatBeyondEnd => last.kind = "panic"

\* ------------------------------ specification: byte buffer integers

\* Integers around the limits of the signed and unsigned 1, 2 and 4 byte
\* values.
IntSamples ==
    { 0, 1, -1, 127, -128, 128, 255, -129, 256, 32767, -32768, 32768, 65535,
      65536, 2147483647, -2147483647 }

\* The value is representable in byte_size bytes, as a signed or as an
\* unsigned integer; the samples all fit 4 and 8 bytes.
Representable(value, byte_size, is_signed) ==
    IF is_signed
    THEN CASE byte_size = 1 -> value \in -128..127
           [] byte_size = 2 -> value \in -32768..32767
           [] OTHER -> TRUE
    ELSE CASE byte_size = 1 -> value \in 0..255
           [] byte_size = 2 -> value \in 0..65535
           [] OTHER -> value >= 0

\* value buffer size buffer.int!  p buffer buffer.position!
\* buffer size is_signed buffer.int@, on a buffer whose cursor is at p; the
\* script keeps the value and p at the bottom of the stack.
InitBufferInt ==
    \E value \in IntSamples, size \in ByteSizes, is_signed \in BOOLEAN,
       position \in 0..BufferLen, fill \in Fills :
        /\ Representable(value, size, is_signed)
        /\ position + size <= BufferLen
        /\ InitWith([StartInterpreter EXCEPT
                        !.heap = << FilledBuffer(fill, position) >>,
                        !.stack = << IntV(value), IntV(position),
                                     BufferV(1), IntV(size), BoolV(is_signed),
                                     IntV(position), BufferV(1),
                                     IntV(value), BufferV(1), IntV(size) >>],
                    Compiled(<< Instr("Execute", StrV("buffer.int!"), NoLoc),
                                Instr("Execute", StrV("buffer.position!"),
                                      NoLoc),
                                Instr("Execute", StrV("buffer.int@"),
                                      NoLoc) >>))

NextBufferInt ==
    \/ Execute
    \/ Return

SpecBufferInt == InitBufferInt /\ [][NextBufferInt]_vars

\* ----------------------------------- properties: byte buffer integers

\* The cursor of the buffer, now.
Cursor == heap[1].items.current_position

\* The integer was written: the cursor is behind its bytes.
WrittenInt ==
    Executed("buffer.int!") =>
        (last.kind = "ok" /\ Cursor = stack[2].v + Arg(0).v)

\* The integer was read back: it is the one written, and the cursor is
\* behind its bytes.
ReadBackInt ==
    Executed("buffer.int@") =>
        /\ last.kind = "ok"
        /\ stack = << stack[1], stack[2], stack[1] >>
        /\ Cursor = stack[2].v + Arg(1).v

\* C17: for each size s of 1, 2, 4 and 8 bytes and every integer
\* representable as a signed s-byte value, writing it at position p, setting
\* the position back to p and reading s bytes as a signed integer returns
\* the same integer, likewise for unsigned values read as unsigned, and the
\* cursor is at p + s after the write and after the read.
C17_IntWriteReadRoundTrip == WrittenInt /\ ReadBackInt

\* A negative integer was read back from one byte as a signed integer.
ReadNegativeByte ==
    /\ Executed("buffer.int@")
    /\ Arg(1).v = 1
    /\ stack[1].v < 0

\* Every other read returns the integer written.
RoundTripButNegativeByte == WrittenInt /\ (ReadNegativeByte \/ ReadBackInt)

\* From one byte a negative integer comes back 256 larger.
NegativeByteReadUnsigned ==
    ReadNegativeByte => stack[3] = IntV(stack[1].v + 256)

\* -------------------------------- specification: byte buffer strings

MaxField == 4

\* Strings, as their UTF-8 bytes, of up to three letters without a zero
\* byte.
StringSamples ==
    { << >>, << 97 >>, << 97, 98 >>, << 97, 98, 99 >>,
      << 97, 98, 99, 100 >>, << 97, 98, 99, 100, 101 >> }

\* s buffer m buffer.string!  p buffer buffer.position!
\* buffer m buffer.string@, on a buffer whose cursor is at p; the script
\* keeps s, p and m at the bottom of the stack.
InitBufferString ==
    \E value \in StringSamples, size \in 0..MaxField,
       position \in 0..BufferLen, fill \in Fills :
        /\ position + size <= BufferLen
        /\ InitWith([StartInterpreter EXCEPT
                        !.heap = << FilledBuffer(fill, position) >>,
                        !.stack = << StrV(value), IntV(position), IntV(size),
                                     BufferV(1), IntV(size),
                                     IntV(position), BufferV(1),
                                     StrV(value), BufferV(1), IntV(size) >>],
                    Compiled(<< Instr("Execute", StrV("buffer.string!"),
                                      NoLoc),
                                Instr("Execute", StrV("buffer.position!"),
                                      NoLoc),
                                Instr("Execute", StrV("buffer.string@"),
                                      NoLoc) >>))

NextBufferString ==
    \/ Execute
    \/ Return

SpecBufferString == InitBufferString /\ [][NextBufferString]_vars

\* ------------------------------------- properties: byte buffer strings

\* The field of m bytes a string s is to fill: its bytes followed by zeros,
\* or its first m bytes.
Field(str, m) ==
    [i \in 1..m |-> IF i <= Len(str) THEN str[i] ELSE 0]

\* The string was written: its field holds its bytes and the padding, the
\* other bytes are as before and the cursor is behind the field.
WrittenString ==
    Executed("buffer.string!") =>
        /\ last.kind = "ok"
        /\ heap[1].items.buffer =
               copy_from_slice(BufferBefore.buffer, stack[2].v,
                               Field(stack[1].s, stack[3].v))
        /\ Cursor = stack[2].v + stack[3].v

\* The string was read back: a string that fits its field is returned as it
\* was written.
ReadBackString ==
    (Executed("buffer.string@") /\ Len(stack[1].s) <= stack[3].v) =>
        /\ last.kind = "ok"
        /\ stack = << stack[1], stack[2], stack[3], stack[1] >>

\* C18: writing a string s into a field of m bytes stores the bytes of s
\* followed by zeros up to m bytes when s is shorter than m, and the first m
\* bytes of s otherwise, and moves the cursor m bytes on; after setting the
\* position back, reading a string of size m returns s whenever s is not
\* longer than m and holds no zero byte.
C18_StringFieldRoundTrip == WrittenString /\ ReadBackString

\* A string shorter than its field was written.
WroteShorterString ==
    /\ Executed("buffer.string!")
    /\ Len(stack[1].s) < stack[3].v

\* A string at least as long as its field is stored and read back as the
\* claim says.
LongStringsFillTheField ==
    /\ WroteShorterString \/ WrittenString
    /\ (Executed("buffer.string@") /\ Len(stack[1].s) = stack[3].v) =>
           stack = << stack[1], stack[2], stack[3], stack[1] >>

\* A non-empty string shorter than its field starts with a zero byte once
\* written.
ShorterStringLosesItsStart ==
    (WroteShorterString /\ stack[1].s # << >>) =>
        heap[1].items.buffer[stack[2].v + 1] = 0

\* ------------------------------------- specification: string literals

MaxText == 3
Chars ==
    { "a", "n", "0", Char_star, Char_quote, Char_backslash, Char_newline,
      Char_return, Char_tab, Char_space }
Texts == SeqsUpTo(Chars, MaxText)

\* The source text of the string literal with the given characters between
\* its quotes.
Literal_of(body) == << Char_quote >> \o body \o << Char_quote >>

\* Value::stringify is applied to the String on top of the stack.
Stringify ==
    /\ status = "running"
    /\ frames = << >>
    /\ last.op = ""
    /\ stack' = Append(stack, StrV(stringify(stack[Len(stack)].s)))
    /\ last' = Last("stringify", NoInstr, "ok", NoErr, Cur, frames, NoErr)
    /\ UNCHANGED << heap, variables, dictionary, word_handlers,
                    data_definitions, call_stack, current_location,
                    constructors, search_paths, frames,
                    status, pair >>

\* tokenize_from_source is applied to the String on top of the stack.
Tokenized(r) ==
    /\ status' = IF r.kind = "panic" THEN "panicked" ELSE status
    /\ last' = [Last("tokenize", NoInstr, r.kind, r.err, Cur, frames, r.err)
                   EXCEPT !.val = [t |-> "Tokens", items |-> r.tokens]]

Tokenize ==
    /\ status = "running"
    /\ frames = << >>
    /\ last.op # "tokenize"
    /\ Tokenized(tokenize_from_source(stack[Len(stack)].s))
    /\ UNCHANGED << stack, heap, variables, dictionary, word_handlers,
                    data_definitions, call_stack, current_location,
                    constructors, search_paths, frames,
                    pair >>

\* The stack holds a String, or the source text of a string literal.
InitTokens ==
    \E text \in Texts, source \in BOOLEAN :
        HostCalls([StartInterpreter EXCEPT
                      !.stack = << StrV(IF source THEN Literal_of(text)
                                        ELSE text) >>])

NextTokens ==
    \/ Stringify
    \/ Tokenize

SpecTokens == InitTokens /\ [][NextTokens]_vars

\* ------------------------------------- properties: string literals

\* The last step tokenized the text that stringify made of a String.
TokenizedStringified ==
    /\ last.op = "tokenize"
    /\ Len(stack) = 2

\* The tokens are one String token with the given text.
OneStringToken(text) ==
    /\ last.kind = "ok"
    /\ last.val.items = << TextToken("String", text) >>

\* C19: for every String s, tokenizing Value::stringify(s) gives exactly
\* one String token whose text is s, also when s holds a backslash, a
\* double quote, a newline, a carriage return or a tab.
C19_StringifyTokenizeRoundTrip ==
    TokenizedStringified => OneStringToken(stack[1].s)

\* The String holds a backslash, or starts with a star.
HoldsBackslashOrStartsWithStar(text) ==
    \/ \E i \in 1..Len(text) : text[i] = Char_backslash
    \/ (text # << >> /\ text[1] = Char_star)

\* Every other String comes back as it was.
RoundTripWithoutBackslash ==
    (TokenizedStringified /\ ~ HoldsBackslashOrStartsWithStar(stack[1].s)) =>
        OneStringToken(stack[1].s)

TokenizedBackslash ==
    /\ TokenizedStringified
    /\ \E i \in 1..Len(stack[1].s) : stack[1].s[i] = Char_backslash

\* No String with a backslash comes back as it was.
BackslashNeverRoundTrips ==
    TokenizedBackslash => ~ OneStringToken(stack[1].s)

\* Letters, digits and spaces.
Plain(text) == \A i \in 1..Len(text) : text[i] \in {"a", "n", "0", Char_space}

Char_nul == "nul"

\* The last step tokenized a string literal of plain characters and one
\* escape of the digit 0; Before and After are the characters around it.
TokenizedNulEscape(before, after) ==
    /\ last.op = "tokenize"
    /\ Plain(before)
    /\ Plain(after)
    /\ stack[Len(stack)].s =
           Literal_of(before \o << Char_backslash, "0" >> \o after)

\* C20: inside a string literal the escape of the digit 0 decodes as the
\* NUL character and tokenizing continues; it is never a tokenizer error.
C20_NulEscapeDecodes ==
    \A before \in SeqsUpTo(Chars, 1), after \in SeqsUpTo(Chars, 1) :
        TokenizedNulEscape(before, after) =>
            OneStringToken(before \o << Char_nul >> \o after)

\* The escape of the digit 0 is always the error of a failed parse.
NulEscapeIsAnError ==
    \A before \in SeqsUpTo(Chars, 1), after \in SeqsUpTo(Chars, 1) :
        TokenizedNulEscape(before, after) =>
            /\ last.kind = "err"
            /\ last.err.error = "Failed to parse numeric literal from ''."

TokenizedSomeNulEscape == TokenizedNulEscape(<< >>, << >>)

\* ------------------------------------------- specification: typed pops

\* A native word calls one of the typed pops; its ? returns the error to the
\* caller of the word.
TypedPop(op, r, val) ==
    /\ status = "running"
    /\ frames = << >>
    /\ SetCur(r.I)
    /\ frames' = frames
    /\ status' = IF r.kind = "ok" THEN "running" ELSE "failed"
    /\ last' = [Last(op, NoInstr, r.kind, r.err, Cur, frames, r.err)
                   EXCEPT !.val = val]
    /\ UNCHANGED pair

PopAsInt == TypedPop("pop_as_int", pop_as_int(Cur), IntV(pop_as_int(Cur).val))
PopAsFloat ==
    TypedPop("pop_as_float", pop_as_float(Cur), FloatV(pop_as_float(Cur).val))
PopAsBool ==
    TypedPop("pop_as_bool", pop_as_bool(Cur), BoolV(pop_as_bool(Cur).val))
PopAsString ==
    TypedPop("pop_as_string", pop_as_string(Cur),
             StrV(pop_as_string(Cur).val))

\* One value of every variant the typed pops tell apart.
PopValues ==
    { NoneV, IntV(0), IntV(2), IntV(-1), FloatV(0), FloatV(3), FloatV(-3),
      BoolV(TRUE), BoolV(FALSE), StrV(""), StrV("a"), VecV(1),
      CodeV(<< >>), NumberToken(IntV(2)), NumberToken(FloatV(3)),
      StringToken("s"), WordToken("w") }

InitPops ==
    \E s \in SeqsUpTo(PopValues, MaxStack) :
        HostCalls([StartInterpreter EXCEPT
                      !.stack = s, !.heap = << VecCell(<< >>) >>])

NextPops ==
    \/ PopAsInt
    \/ PopAsFloat
    \/ PopAsBool
    \/ PopAsString

SpecPops == InitPops /\ [][NextPops]_vars

\* -------------------------------------------------- properties: typed pops

\* The last step was the named typed pop, on a stack that held a value.
Popped(op) ==
    /\ last.op = op
    /\ last.pre.stack # << >>

\* The rows of the coercion table: the variants a typed pop accepts.
TableAccepts(op, v) ==
    CASE op \in {"pop_as_int", "pop_as_float"} ->
             \/ v.t \in {"Int", "Float", "Bool"}
             \/ (v.t = "Token" /\ v.kind = "Number")
      [] op = "pop_as_bool" ->
             v.t \in {"None", "Int", "Float", "Bool", "String"}
      [] op = "pop_as_string" ->
             \/ v.t \in {"None", "Int", "Float", "String"}
             \/ (v.t = "Token" /\ v.kind \in {"String", "Word"})

\* The value the coercion table gives for an accepted variant.
TableValue(op, v) ==
    CASE op = "pop_as_bool" ->
             BoolV(CASE v.t = "None" -> FALSE
                     [] v.t \in {"Int", "Float"} -> v.v # 0
                     [] v.t = "Bool" -> v.v = 1
                     [] v.t = "String" -> v.s # "")
      [] op = "pop_as_string" ->
             StrV(CASE v.t = "None" -> ""
                    [] v.t = "Int" -> ToString(v.v)
                    [] v.t = "Float" -> FloatStr(v.v)
                    [] OTHER -> v.s)
      [] OTHER -> last.val

\* C11: a typed pop succeeds exactly on the variants of the coercion table,
\* with the value the table gives, and returns an error on every other
\* variant: pop_as_int and pop_as_float reject None, pop_as_bool maps a
\* String to whether it is non-empty.
C11_TypedPopsFollowTable ==
    \A op \in {"pop_as_int", "pop_as_float", "pop_as_bool", "pop_as_string"} :
        Popped(op) =>
            IF TableAccepts(op, Arg(0))
            THEN last.kind = "ok" /\ last.val = TableValue(op, Arg(0))
            ELSE last.kind = "err"

\* pop_as_string alone follows its row of the table.
PopAsStringFollowsTable ==
    Popped("pop_as_string") =>
        IF TableAccepts("pop_as_string", Arg(0))
        THEN last.kind = "ok" /\ last.val = TableValue("pop_as_string", Arg(0))
        ELSE last.kind = "err"

\* pop_as_int took a None, pop_as_bool took a String.
PoppedNoneAsInt == Popped("pop_as_int") /\ Arg(0) = NoneV
PoppedStringAsBool == Popped("pop_as_bool") /\ Arg(0).t = "String"

\* ------------------------------------------- specification: signatures

\* The signature a word was registered with, as the words of its text.
WordSignature(name) ==
    LET entry == CHOOSE k \in 1..Len(BuiltIns) : BuiltIns[k][1] = name
    IN BuiltIns[entry][3]

\* The inputs and the outputs a signature names: the words before and after
\* its "--".
SignatureInputs(signature) ==
    (CHOOSE k \in 1..Len(signature) : signature[k] = "--") - 1
SignatureOutputs(signature) == Len(signature) - SignatureInputs(signature) - 1

SignedWords ==
    {"dup", "drop", "swap", "over", "rot", "stack.depth", "pick", "push-to",
     "=", "[].new", "[].size@", "[]@", "buffer.size@"}

SignatureValues == { IntV(0), IntV(1), VecV(1), BufferV(2) }

\* One word is executed on a stack of up to MaxArgs numbers, arrays and
\* buffers; the heap holds an array of two items and a buffer of two bytes.
InitSignature ==
    \E w \in SignedWords, s \in SeqsUpTo(SignatureValues, MaxArgs) :
        InitWith([StartInterpreter EXCEPT
                     !.heap = << VecCell(<< IntV(0), IntV(1) >>),
                                 BufferCell(ByteBuffer(<< 0, 0 >>, 0)) >>,
                     !.stack = s],
                 Compiled(<< Instr("Execute", StrV(w), NoLoc) >>))

NextSignature ==
    \/ Execute
    \/ Return

SpecSignature == InitSignature /\ [][NextSignature]_vars

\* --------------------------------------------------- properties: signatures

\* The last step executed the word w and the word succeeded.
Succeeded(w) == Executed(w) /\ last.kind = "ok"

\* The depth of the stack changed by the outputs less the inputs of the
\* signature of w.
DepthFollowsSignature(w) ==
    Len(stack) = Len(last.pre.stack)
                     - SignatureInputs(WordSignature(w))
                     + SignatureOutputs(WordSignature(w))

\* C21: a successful execution of a built-in word registered with a
\* signature of n inputs and m outputs changes the depth of the value stack
\* by exactly m - n.
C21_DepthFollowsSignature ==
    \A w \in SignedWords : Succeeded(w) => DepthFollowsSignature(w)

\* The words whose handler pops a value that the signature does not name
\* ([].new its size, buffer.size@ its buffer), or moves a value where the
\* signature names a new one (pick, push-to).
MisdeclaredWords == {"[].new", "buffer.size@", "pick", "push-to"}

\* The other words keep to their signature.
DeclaredWordsFollowSignature ==
    \A w \in SignedWords \ MisdeclaredWords :
        Succeeded(w) => DepthFollowsSignature(w)

\* The four words never keep to theirs.
MisdeclaredWordsNeverFollow ==
    \A w \in MisdeclaredWords : Succeeded(w) => ~ DepthFollowsSignature(w)

\* [].new has succeeded.
CreatedArray == Succeeded("[].new")

\* ------------------------------------- specification: ffi marshalling

\* The padding after `size` bytes up to the next multiple of `align`, a power
\* of two.
alignment(size, align) == ((size + align - 1) \div align) * align - size

PointerSize == 8

\* Buffer::resize: new bytes are zero; a cursor at or beyond the new size is
\* set to new_size - 1, which underflows for a new size of 0.
resize(bb, new_size, overflow_checks) ==
    IF bb.current_position >= new_size
    THEN IF usize_dec_panics(new_size, overflow_checks) THEN BufferPanic(bb)
         ELSE BufferOk(ByteBuffer(
                           [i \in 1..new_size |->
                               IF i <= Len(bb.buffer) THEN bb.buffer[i] ELSE 0],
                           usize_dec(new_size)), 0)
    ELSE BufferOk(ByteBuffer(
                      [i \in 1..new_size |->
                          IF i <= Len(bb.buffer) THEN bb.buffer[i] ELSE 0],
                      bb.current_position), 0)

\* The address of the byte at the cursor of a buffer whose bytes start at
\* `address`.
position_ptr_mut(bb, address) == address + bb.current_position

\* conversion_size of ffi.string and of ffi.i64: the size in the primary
\* buffer and the size in the extra buffer.
conversion_size(I, type, align, value) ==
    IF type = "ffi.string"
    THEN IF ~ is_string(value)
         THEN [kind |-> "err", I |-> I,
               err |-> script_error(I, "Value is not a string."),
               size |-> 0, extra |-> 0]
         ELSE [kind |-> "ok", I |-> I, err |-> NoErr,
               size |-> PointerSize + alignment(PointerSize, align),
               extra |-> Len(get_string_val(value)) + 1
                         + alignment(Len(get_string_val(value)) + 1, align)]
    ELSE [kind |-> "ok", I |-> I, err |-> NoErr,
          size |-> 8 + alignment(8, align), extra |-> 0]

\* The buffers after a conversion, or the error or the panic it ended in.
Converted(kind, I, err, buffer, extra) ==
    [kind |-> kind, I |-> I, err |-> err, buffer |-> buffer, extra |-> extra]

\* conversion_from of ffi.string: the pointer to the cursor of the extra
\* buffer is written to the primary buffer, then the string is written to
\* the extra buffer as a field of its length and the padding of its length.
conversion_from_string(I, value, align, buffer, extra, extra_address) ==
    LET written(slot, padded, field) ==
            IF slot.kind # "ok" \/ padded.kind # "ok" \/ field.kind # "ok"
            THEN Converted("panic", I, NoErr, buffer, extra)
            ELSE Converted("ok", I, NoErr, padded.bb, field.bb)
        with_slot(slot) ==
            written(slot,
                    increment_position(slot.bb,
                                       alignment(PointerSize, align)),
                    write_string(extra,
                                 Len(value.s) + alignment(Len(value.s), align),
                                 value.s))
    IN IF ~ is_string(value)
       THEN Converted("err", I, script_error(I, "Value is not a string."),
                      buffer, extra)
       ELSE with_slot(write_int(buffer, PointerSize,
                                position_ptr_mut(extra, extra_address)))

\* conversion_to_int with the size of an i64.
conversion_to_int(I, value, align, size, buffer, extra) ==
    LET written(slot, padded) ==
            IF slot.kind # "ok" \/ padded.kind # "ok"
            THEN Converted("panic", I, NoErr, buffer, extra)
            ELSE Converted("ok", I, NoErr, padded.bb, extra)
        with_slot(slot) ==
            written(slot, increment_position(slot.bb, alignment(size, align)))
    IN IF ~ is_numeric(value)
       THEN Converted("err", I, script_error(I, "Value is not numeric."),
                      buffer, extra)
       ELSE with_slot(write_int(buffer, size, get_int_val(value)))

conversion_from(I, type, value, align, buffer, extra, extra_address) ==
    IF type = "ffi.string"
    THEN conversion_from_string(I, value, align, buffer, extra, extra_address)
    ELSE conversion_to_int(I, value, align, 8, buffer, extra)

\* What get_param_value_ptrs leaves: the values popped, the two buffers and
\* the pointers to the parameters.
Marshalled(kind, I, err, values, buffer, extra, ptrs) ==
    [kind |-> kind, I |-> I, err |-> err, values |-> values,
     buffer |-> buffer, extra |-> extra, ptrs |-> ptrs]

\* The first loop: the arguments are popped, the last one first, and their
\* sizes are added up.
RECURSIVE pop_params(_, _, _, _, _, _, _)
pop_params(I, arg_types, index, align, values, base_size, extra_size) ==
    LET with_size(r, s) ==
            IF s.kind # "ok"
            THEN [kind |-> "err", I |-> s.I, err |-> s.err, values |-> values,
                  base_size |-> base_size, extra_size |-> extra_size]
            ELSE pop_params(s.I, arg_types, index - 1, align,
                            [values EXCEPT ![index] = r.val],
                            base_size + s.size, extra_size + s.extra)
        with_value(r) ==
            IF r.kind # "ok"
            THEN [kind |-> "err", I |-> r.I, err |-> r.err, values |-> values,
                  base_size |-> base_size, extra_size |-> extra_size]
            ELSE with_size(r, conversion_size(r.I, arg_types[index], align,
                                              r.val))
    IN IF index = 0
       THEN [kind |-> "ok", I |-> I, err |-> NoErr, values |-> values,
             base_size |-> base_size, extra_size |-> extra_size]
       ELSE with_value(pop(I))

\* The second loop: the pointer to each parameter is taken and the value is
\* converted into the buffers, the first one first; `at` holds the addresses
\* of the bytes of the two buffers.
RECURSIVE convert_params(_, _, _, _, _, _, _, _, _)
convert_params(I, arg_types, values, index, align, buffer, extra, ptrs, at) ==
    LET with_conversion(c) ==
            IF c.kind # "ok"
            THEN Marshalled(c.kind, c.I, c.err, values, c.buffer, c.extra,
                            ptrs)
            ELSE convert_params(c.I, arg_types, values, index + 1, align,
                                c.buffer, c.extra,
                                Append(ptrs,
                                       position_ptr_mut(buffer, at.buffer)),
                                at)
    IN IF index > Len(arg_types)
       THEN Marshalled("ok", I, NoErr, values, buffer, extra, ptrs)
       ELSE with_conversion(conversion_from(I, arg_types[index], values[index],
                                            align, buffer, extra, at.extra))

get_param_value_ptrs(I, arg_types, align, overflow_checks, at) ==
    LET resized(p, buffer, extra) ==
            IF buffer.kind # "ok" \/ extra.kind # "ok"
            THEN Marshalled("panic", p.I, NoErr, p.values, buffer.bb,
                            extra.bb, << >>)
            ELSE convert_params(p.I, arg_types, p.values, 1, align, buffer.bb,
                                extra.bb, << >>, at)
        popped(p) ==
            IF p.kind # "ok"
            THEN Marshalled(p.kind, p.I, p.err, p.values, ByteBuffer(<< >>, 0),
                            ByteBuffer(<< >>, 0), << >>)
            ELSE resized(p,
                         resize(ByteBuffer(<< >>, 0), p.base_size,
                                overflow_checks),
                         resize(ByteBuffer(<< >>, 0), p.extra_size,
                                overflow_checks))
    IN popped(pop_params(I, arg_types, Len(arg_types), align,
                         [k \in 1..Len(arg_types) |-> NoneV], 0, 0))

\* FfiWord::new sets the alignment of every call.
FfiAlignment == 8

MaxParams == 2
FfiTypes == {"ffi.string", "ffi.i64"}
ReturnTypes == {"ffi.void", "ffi.i64"}

\* Strings of no byte, of one byte and of as many bytes as the alignment.
FfiStrings == { << >>, << 97 >>, << 97, 98, 99, 100, 101, 102, 103, 104 >> }
FfiValues == { StrV(s) : s \in FfiStrings } \cup { IntV(1) }

\* Where the allocator puts the bytes of the two buffers.
BufferAddresses == { 4096 }
ExtraAddresses == { 8192, 8448 }

\* The interpreter is about to execute a word bound to a foreign function.
InitFfi ==
    \E s \in SeqsUpTo(FfiValues, MaxParams) :
        HostCalls([StartInterpreter EXCEPT !.stack = s])

\* handle_word up to the foreign call: the symbol is looked up and the
\* arguments are marshalled.
MarshalArguments ==
    /\ status = "running"
    /\ frames = << >>
    /\ last.op = ""
    /\ \E arg_types \in SeqsUpTo(FfiTypes, MaxParams),
          return_type \in ReturnTypes,
          overflow_checks \in BOOLEAN,
          buffer_address \in BufferAddresses,
          extra_address \in ExtraAddresses :
           LET leave(r) ==
                   /\ SetCur(r.I)
                   /\ status' = CASE r.kind = "ok" -> "calling"
                                  [] r.kind = "err" -> "failed"
                                  [] OTHER -> "panicked"
                   /\ last' = [Last("get_param_value_ptrs", NoInstr, r.kind,
                                    r.err, Cur, frames, r.err)
                                  EXCEPT !.val =
                                      [arg_types |-> arg_types,
                                       return_type |-> return_type,
                                       values |-> r.values,
                                       buffer |-> r.buffer,
                                       extra |-> r.extra,
                                       ptrs |-> r.ptrs,
                                       buffer_address |-> buffer_address,
                                       extra_address |-> extra_address]]
           IN leave(get_param_value_ptrs(Cur, arg_types, FfiAlignment,
                                         overflow_checks,
                                         [buffer |-> buffer_address,
                                          extra |-> extra_address]))
    /\ UNCHANGED << frames, pair >>

\* The symbol is not in the library: the word returns an error before it
\* pops an argument.
SymbolNotFound ==
    /\ status = "running"
    /\ frames = << >>
    /\ last.op = ""
    /\ status' = "failed"
    /\ last' = Last("handle_word", NoInstr, "err",
                    script_error(Cur, "Failed to get library symbol."),
                    Cur, frames,
                    script_error(Cur, "Failed to get library symbol."))
    /\ UNCHANGED << stack, heap, variables, dictionary, word_handlers,
                    data_definitions, call_stack, current_location,
                    constructors, search_paths, frames,
                    pair >>

\* The foreign function has returned: a result that is not void is read from
\* the return buffer and pushed.
ForeignCallReturns ==
    /\ status = "calling"
    /\ \E result \in {0, 1} :
           SetCur(IF last.val.return_type = "ffi.void" THEN Cur
                  ELSE push(Cur, IntV(result)))
    /\ status' = "running"
    /\ last' = [last EXCEPT !.op = "handle_word"]
    /\ UNCHANGED << frames, pair >>

NextFfi ==
    \/ MarshalArguments
    \/ SymbolNotFound
    \/ ForeignCallReturns

SpecFfi == InitFfi /\ [][NextFfi]_vars

\* ------------------------------------------- properties: ffi marshalling

\* The arguments of the call have been marshalled.
ArgumentsMarshalled ==
    /\ last.op = "get_param_value_ptrs"
    /\ last.kind = "ok"

\* The parameters of the call that are strings.
StringParams ==
    { k \in 1..Len(last.val.arg_types) : last.val.arg_types[k] = "ffi.string" }

\* The pointer in the slot of parameter k, as an offset into the extra
\* buffer, and the string the parameter was given.
SlotOf(k) == last.val.ptrs[k] - last.val.buffer_address
PointerOf(k) ==
    unsigned_from_le_bytes(SubSeq(last.val.buffer.buffer, SlotOf(k) + 1,
                                  SlotOf(k) + PointerSize))
    - last.val.extra_address
StringOf(k) == last.val.values[k].s

\* The extra buffer holds the string of parameter k and a NUL byte after it
\* where the pointer of the parameter points.
StoredWithNul(k) ==
    /\ PointerOf(k) >= 0
    /\ PointerOf(k) + Len(StringOf(k)) + 1 <= Len(last.val.extra.buffer)
    /\ SubSeq(last.val.extra.buffer, PointerOf(k) + 1,
              PointerOf(k) + Len(StringOf(k))) = StringOf(k)
    /\ last.val.extra.buffer[PointerOf(k) + Len(StringOf(k)) + 1] = 0

\* The bytes of the strings of parameters k and j, each with its NUL byte,
\* do not overlap.
Apart(k, j) ==
    \/ PointerOf(k) + Len(StringOf(k)) + 1 <= PointerOf(j)
    \/ PointerOf(j) + Len(StringOf(j)) + 1 <= PointerOf(k)

\* C22: after the arguments of a call have been marshalled, the pointer slot
\* of every ffi.string argument holds an address inside the extra buffer
\* where all bytes of the argument's string are stored, followed by a NUL
\* byte, and the regions of different string arguments do not overlap.
C22_StringArgumentsAreMarshalled ==
    ArgumentsMarshalled =>
        /\ \A k \in StringParams : StoredWithNul(k)
        /\ \A k, j \in StringParams : k # j => Apart(k, j)

\* Every pointer slot holds an address inside the extra buffer.
PointersAreInsideExtraBuffer ==
    ArgumentsMarshalled =>
        \A k \in StringParams :
            /\ PointerOf(k) >= 0
            /\ PointerOf(k) < Len(last.val.extra.buffer)

\* A string whose length is not a multiple of the alignment is padded, and
\* the padding is written over its first bytes: the extra buffer never
\* holds it.
PaddedStringsAreLost ==
    ArgumentsMarshalled =>
        \A k \in StringParams :
            Len(StringOf(k)) % FfiAlignment # 0 => ~ StoredWithNul(k)

\* A string argument of one byte has been marshalled.
MarshalledShortString ==
    /\ ArgumentsMarshalled
    /\ \E k \in StringParams : Len(StringOf(k)) = 1

\* A string whose length is a multiple of the alignment is stored whole, but
\* no NUL byte is written after it: the next string starts there.
AlignedStringsAreStored ==
    ArgumentsMarshalled =>
        \A k \in StringParams :
            Len(StringOf(k)) % FfiAlignment = 0 =>
                SubSeq(last.val.extra.buffer, PointerOf(k) + 1,
                       PointerOf(k) + Len(StringOf(k))) = StringOf(k)

\* Two strings of the length of the alignment have been marshalled.
MarshalledTwoAlignedStrings ==
    /\ ArgumentsMarshalled
    /\ StringParams = {1, 2}
    /\ Len(StringOf(1)) = FfiAlignment
    /\ Len(StringOf(2)) = FfiAlignment

\* The first of them is followed by the second, not by a NUL byte.
AlignedStringsRunTogether ==
    MarshalledTwoAlignedStrings =>
        last.val.extra.buffer[PointerOf(1) + FfiAlignment + 1]
            = StringOf(2)[1]

\* ------------------------------------------------- specification: reset

ResetInstructions ==
    { Instr("Execute", StrV("reset"), NoLoc),
      Instr("PushConstantValue", IntV(1), NoLoc),
      Instr("DefConstant", StrV("k"), NoLoc),
      Instr("DefVariable", StrV("x"), NoLoc) }

\* A top level block of user code runs in the interpreter as main starts it.
InitReset ==
    \E c \in SeqsUpTo(ResetInstructions, MaxCode),
       s \in SeqsUpTo({IntV(0)}, MaxArgs) :
        InitWith([StartInterpreter EXCEPT !.stack = s], Compiled(c))

NextReset ==
    \/ Execute
    \/ PushConstantValue
    \/ DefConstant
    \/ DefVariable
    \/ Return

SpecReset == InitReset /\ [][NextReset]_vars

\* ------------------------------------------------------ properties: reset

\* The words of the dictionary d, whatever scope defines them.
DefinedWords(d) == UNION { DOMAIN d[k] : k \in 1..Len(d) }

\* The last step executed reset.
ExecutedReset == Executed("reset")

\* C23: reset returns the interpreter to its default state however often it
\* is executed: it succeeds, the stack is empty, the words, constants and
\* variables of user code are gone, the start-up words remain, and the scope
\* depth is the depth right after start-up.
C23_ResetRestoresDefaultState ==
    ExecutedReset =>
        /\ last.kind = "ok"
        /\ stack = << >>
        /\ DefinedWords(dictionary) = DefinedWords(StartInterpreter.dictionary)
        /\ CL_len(variables) = 0
        /\ Len(dictionary) = Len(StartInterpreter.dictionary)
        /\ Len(variables) = Len(StartInterpreter.variables)
        /\ Len(word_handlers) = Len(StartInterpreter.word_handlers)

\* reset was executed in the scope that main marks for user code.
FirstReset ==
    /\ ExecutedReset
    /\ Len(last.pre.dictionary) = Len(StartInterpreter.dictionary)

\* The first reset succeeds and leaves an empty stack and the start-up
\* words only, in one scope less than after start-up.
FirstResetDropsUserScope ==
    FirstReset =>
        /\ last.kind = "ok"
        /\ stack = << >>
        /\ DefinedWords(dictionary) = DefinedWords(StartInterpreter.dictionary)
        /\ CL_len(variables) = 0
        /\ Len(dictionary) = Len(StartInterpreter.dictionary) - 1

\* reset was executed after an earlier reset.
ResetAgain ==
    /\ ExecutedReset
    /\ Len(last.pre.dictionary) < Len(StartInterpreter.dictionary)

\* The second reset finds the last scope and aborts.
SecondResetAborts == ResetAgain => status = "panicked"

\* ------------------------------------ specification: scopes of definitions

\* The host adds words, marks contexts and releases them.  last.val keeps a
\* history of what was done: for every context that is still marked the
\* lookups as they were before it was marked and the words added in it, the
\* handler indices whose context has been released and that have not been
\* issued again, and the lookups the last release had to restore.
MaxWords == 3
MaxScopes == 3

ContextNames == {"dup", "a"}
ContextHandlers == { ConstantHandler(IntV(1)), ConstantHandler(IntV(2)) }

NotFound == [name |-> "", handler_index |-> -1, runtime |-> ""]

\* find_word, with None as NotFound.
find_word(I, word) ==
    IF Dictionary_has(I.dictionary, word)
    THEN Dictionary_try_get(I.dictionary, word) ELSE NotFound

Lookups(I) == [n \in ContextNames |-> find_word(I, n)]

AddedWord(name, index, handler) ==
    [name |-> name, index |-> index, info |-> WordHandlerInfo(name, handler)]

Scope(before, added) == [before |-> before, added |-> added]

\* main has registered the built-in words in the first context and marked
\* the second.
StartHistory ==
    [scopes |->
         << Scope(Lookups(NewInterpreter),
                  [i \in 1..Len(BuiltIns) |->
                      AddedWord(BuiltIns[i][1], i - 1,
                            NativeHandler(BuiltIns[i][2]))]),
            Scope(Lookups(register_words(NewInterpreter, BuiltIns)), << >>) >>,
     released |-> {},
     restored |-> Lookups(StartInterpreter)]

RECURSIVE WordsAdded(_)
WordsAdded(scopes) ==
    IF scopes = << >> THEN 0
    ELSE Len(Head(scopes).added) + WordsAdded(Tail(scopes))

InitContext == HostCalls(StartInterpreter)

History == IF last.op = "" THEN StartHistory ELSE last.val

\* add_word: the index the handler list issues goes into the word's entry.
AddWord ==
    /\ status = "running"
    /\ frames = << >>
    /\ WordsAdded(History.scopes) < Len(BuiltIns) + MaxWords
    /\ \E name \in ContextNames, handler \in ContextHandlers :
           /\ SetCur(add_word(Cur, name, handler))
           /\ last' = [Last("add_word", NoInstr, "ok", NoErr, Cur, frames,
                            NoErr)
                       EXCEPT !.val =
                           [History EXCEPT
                               !.scopes[Len(History.scopes)].added =
                                   Append(@, AddedWord(name, CL_len(word_handlers),
                                                   handler)),
                               !.released = @ \ {CL_len(word_handlers)}]]
    /\ UNCHANGED << frames, status, pair >>

MarkUserContext ==
    /\ status = "running"
    /\ frames = << >>
    /\ Len(dictionary) < MaxScopes
    /\ SetCur(mark_context(Cur))
    /\ last' = [Last("mark_context", NoInstr, "ok", NoErr, Cur, frames, NoErr)
                EXCEPT !.val =
                    [History EXCEPT
                        !.scopes = Append(@, Scope(Lookups(Cur), << >>))]]
    /\ UNCHANGED << frames, status, pair >>

Released(scope) == { scope.added[k].index : k \in 1..Len(scope.added) }

\* release_context: releasing the last context panics.
ReleaseUserContext ==
    /\ status = "running"
    /\ frames = << >>
    /\ IF release_panics(Cur)
       THEN /\ status' = "panicked"
            /\ last' = [Last("release_context", NoInstr, "panic", NoErr, Cur,
                             frames, NoErr)
                        EXCEPT !.val = History]
            /\ UNCHANGED << stack, heap, variables, dictionary, word_handlers,
                            data_definitions, call_stack, current_location,
                            constructors, search_paths >>
       ELSE /\ status' = status
            /\ SetCur(release_context(Cur))
            /\ last' =
                   [Last("release_context", NoInstr, "ok", NoErr, Cur, frames,
                         NoErr)
                    EXCEPT !.val =
                        [scopes |-> SubSeq(History.scopes, 1,
                                           Len(History.scopes) - 1),
                         released |->
                             History.released \cup
                             Released(History.scopes[Len(History.scopes)]),
                         restored |->
                             History.scopes[Len(History.scopes)].before]]
    /\ UNCHANGED << frames, pair >>

NextContext ==
    \/ AddWord
    \/ MarkUserContext
    \/ ReleaseUserContext

SpecContext == InitContext /\ [][NextContext]_vars

\* ------------------------------------------------- properties: dictionary

\* The additions of the name in a context.
Additions(scope, name) ==
    { k \in 1..Len(scope.added) : scope.added[k].name = name }

Latest(scope, name) ==
    scope.added[CHOOSE k \in Additions(scope, name) :
                    \A j \in Additions(scope, name) : j <= k]

\* The definition a lookup of the name has to find: the last one added in
\* the innermost context that has one.
RECURSIVE Defined(_, _)
Defined(scopes, name) ==
    IF scopes = << >> THEN NotFound
    ELSE IF Additions(scopes[Len(scopes)], name) # {}
    THEN WordInfo(name, Latest(scopes[Len(scopes)], name).index)
    ELSE Defined(SubSeq(scopes, 1, Len(scopes) - 1), name)

LookupFindsInnermostLatest ==
    \A name \in ContextNames :
        find_word(Cur, name) = Defined(History.scopes, name)

ReleasedContext ==
    /\ last.op = "release_context"
    /\ last.kind = "ok"

\* After a release every name resolves as it did before the matching mark,
\* and the contexts below the released one are as they were.
ReleaseRestoresLookups ==
    ReleasedContext =>
        /\ Lookups(Cur) = last.val.restored
        /\ Len(dictionary) = Len(last.pre.dictionary) - 1
        /\ dictionary = SubSeq(last.pre.dictionary, 1, Len(dictionary))

\* C24: a lookup returns the most recent definition of the name in the
\* innermost scope that defines it, and after release_context every name
\* resolves to the definition it had before the matching mark_context (or is
\* not found), the definitions of the outer scopes being unaffected.
C24_LookupFollowsScopes ==
    /\ LookupFindsInnermostLatest
    /\ ReleaseRestoresLookups

\* A release has brought back the definition of an outer scope for one name
\* and has made another name unknown again.
C24_Witness ==
    /\ ReleasedContext
    /\ find_word(last.pre, "dup") # find_word(Cur, "dup")
    /\ find_word(Cur, "dup") = find_word(StartInterpreter, "dup")
    /\ find_word(last.pre, "a") # NotFound
    /\ find_word(Cur, "a") = NotFound

\* A name has been defined twice in the innermost scope, over a definition of
\* an outer scope.
DefinedTwiceInScope ==
    /\ last.op = "add_word"
    /\ Cardinality(Additions(History.scopes[Len(History.scopes)], "dup")) = 2

\* ------------------------------------------- properties: contextual list

\* The word added as number j of context k is still in slot j of sub-list k
\* of the handler list, and its index addresses that slot.
AddressesItsSlot(k, j) ==
    /\ ~ CL_index_panics(word_handlers, History.scopes[k].added[j].index)
    /\ CL_find(word_handlers, History.scopes[k].added[j].index) = k
    /\ History.scopes[k].added[j].index - word_handlers[k].start_index + 1 = j
    /\ CL_index(word_handlers, History.scopes[k].added[j].index) =
           History.scopes[k].added[j].info

IssuedIndicesKeepTheirSlot ==
    \A k \in 1..Len(History.scopes) :
        \A j \in 1..Len(History.scopes[k].added) : AddressesItsSlot(k, j)

ReleasedIndicesAreOutOfRange ==
    \A index \in History.released :
        /\ index >= CL_len(word_handlers)
        /\ CL_index_panics(word_handlers, index)

\* C25: an index returned by an insert into the contextual list keeps
\* addressing the same slot after later inserts, after mark_context and
\* after the release of scopes marked later than its own; once its own scope
\* is released the index is out of range (at or beyond len) until an insert
\* issues it again.
C25_IndicesFollowScopes ==
    /\ IssuedIndicesKeepTheirSlot
    /\ ReleasedIndicesAreOutOfRange

\* A later scope has been released: the index issued in the user's first
\* scope still addresses its slot, the indices of the released scope are out
\* of range.
C25_Witness ==
    /\ ReleasedContext
    /\ Len(History.scopes) = 2
    /\ History.scopes[2].added # << >>
    /\ Cardinality(History.released) = 2

\* An insert has issued a released index again and the next released index
\* is still out of range.
ReissuedIndex ==
    /\ last.op = "add_word"
    /\ CL_len(word_handlers) \in History.released
    /\ CL_len(last.pre.word_handlers) < CL_len(word_handlers)

\* ------------------------------------------- specification: compilation

MaxTokens == 2

\* add_native_immediate_word!
add_immediate_word(I, name, handler) ==
    [add_word(I, name, handler)
        EXCEPT !.dictionary[Len(I.dictionary)][name].runtime = "Immediate"]

\* The built-in words with the immediate word `immediate`, and in the user's
\* context a constant that is named 1.
CompileInterpreter ==
    add_word(mark_context(add_immediate_word(
                 register_words(NewInterpreter, BuiltIns),
                 "immediate", NativeHandler("word_immediate"))),
             "1", ConstantHandler(IntV(7)))

\* A token with its location: the tokens of a source are numbered.
Located(location, token) == [location |-> location, token |-> token]

LocatedTokens(tokens) == [k \in 1..Len(tokens) |-> Located(k, tokens[k])]

\* Display for NumberType.
NumberStr(num) == IF num.t = "Int" THEN ToString(num.v) ELSE FloatStr(num.v)

NoName == [some |-> FALSE, name |-> ""]
SomeName(name) == [some |-> TRUE, name |-> name]

\* A String token is taken for a word's name as well.
token_to_word_name_any(token) ==
    CASE token.kind = "Word" -> SomeName(token.s)
      [] token.kind = "Number" -> SomeName(NumberStr(token.num))
      [] token.kind = "String" -> SomeName(token.s)

token_to_word_name(token) ==
    CASE token.kind = "Word" -> SomeName(token.s)
      [] token.kind = "Number" -> SomeName(NumberStr(token.num))
      [] token.kind = "String" -> NoName

\* interpreter.context_mut().push_instruction(instruction)
emit(I, instruction) ==
    IF context_panics(I) THEN Panic(I) ELSE push_instruction(I, instruction)

Outcome(r) == [kind |-> r.kind, I |-> r.I, err |-> r.err]

process_token(I, token) ==
    IF /\ token_to_word_name(token.token).some
       /\ Dictionary_has(I.dictionary, token_to_word_name(token.token).name)
    THEN IF find_word(I, token_to_word_name(token.token).name).runtime
                = "Immediate"
         THEN Outcome(execute_word(I, token.location,
                  find_word(I, token_to_word_name(token.token).name)))
         ELSE emit(I, Instr("Execute",
                  IntV(find_word(I, token_to_word_name(token.token).name)
                           .handler_index),
                  token.location))
    ELSE CASE token.token.kind = "Word" ->
                  emit(I, Instr("Execute", StrV(token.token.s),
                                token.location))
           [] token.token.kind = "Number" ->
                  emit(I, Instr("PushConstantValue", token.token.num,
                                token.location))
           [] token.token.kind = "String" ->
                  emit(I, Instr("PushConstantValue", StrV(token.token.s),
                                token.location))

\* CodeConstructor::next_token when a token is left.
context_next_token(I) ==
    [I EXCEPT !.constructors[Len(I.constructors)].current = @ + 1]

TokenLeft ==
    /\ constructors # << >>
    /\ context(Cur).current < Len(context(Cur).input)

CompileTokens ==
    { WordToken("dup"), WordToken("immediate"), WordToken("nope"),
      NumberToken(IntV(1)), NumberToken(IntV(2)), NumberToken(FloatV(2)),
      StringToken("dup") }

\* process_source_from_tokens has made a context for the tokens.
InitCompile ==
    \E tokens \in SeqsUpTo(CompileTokens, MaxTokens) :
        HostCalls(context_new(CompileInterpreter, LocatedTokens(tokens)))

\* The outcome of one token: an error drops the context and is returned.
Processed(token, r) ==
    /\ SetCur(IF r.kind = "err" THEN context_drop(r.I).I ELSE r.I)
    /\ status' = CASE r.kind = "ok" -> status
                   [] r.kind = "err" -> "error"
                   [] r.kind = "panic" -> "panicked"
    /\ last' = [Last("process_token", NoInstr, r.kind, r.err, Cur, frames,
                     r.err)
                EXCEPT !.val = token]

\* One round of the loop of process_source_from_tokens.
ProcessToken ==
    /\ status = "running"
    /\ frames = << >>
    /\ TokenLeft
    /\ Processed(context(Cur).input[context(Cur).current + 1],
                 process_token(context_next_token(Cur),
                               context(Cur).input[context(Cur).current + 1]))
    /\ UNCHANGED << frames, pair >>

\* The tokens are used up: the context is dropped and its code is run.
ExecuteCompiledCode ==
    /\ status = "running"
    /\ frames = << >>
    /\ constructors # << >>
    /\ ~ TokenLeft
    /\ IF construction_fails(Cur)
       THEN /\ SetCur(context_drop(Cur).I)
            /\ status' = "error"
            /\ frames' = frames
            /\ last' = Last("construction", NoInstr, "err",
                   ErrNoLocation(Cur,
                       "Accessing an empty construction context.").err,
                   Cur, frames,
                   ErrNoLocation(Cur,
                       "Accessing an empty construction context.").err)
       ELSE /\ SetCur(context_drop(Cur).I)
            /\ status' = status
            /\ frames' = << Frame("<toplevel>", construction(Cur).code,
                                  context_drop(Cur).I) >>
            /\ last' = Last("construction", NoInstr, "ok", NoErr, Cur, frames,
                            NoErr)
    /\ UNCHANGED pair

NextCompile ==
    \/ ProcessToken
    \/ ExecuteCompiledCode
    \/ Execute
    \/ PushConstantValue
    \/ Return

SpecCompile == InitCompile /\ [][NextCompile]_vars

\* ------------------------------------------------ properties: compilation

ProcessedToken ==
    /\ last.op = "process_token"
    /\ last.kind = "ok"

\* The text a Word or a Number token is looked up by.
TokenText(token) ==
    IF token.kind = "Number" THEN NumberStr(token.num) ELSE token.s

\* The token is a Word or a Number and its text names a word that was
\* defined when the token was compiled.
NamesWord(token) ==
    /\ token.kind \in {"Word", "Number"}
    /\ find_word(last.pre, TokenText(token)) # NotFound

\* The token has added exactly this instruction to the code under
\* construction and has done nothing else.
Emitted(instruction) ==
    Cur = with_construction(context_next_token(last.pre),
              [construction(last.pre) EXCEPT !.code = Append(@, instruction)])

\* The word was run at compile time: `immediate` has marked the construction
\* and no instruction was added.
ExecutedAtCompileTime ==
    Cur = [with_construction(context_next_token(last.pre),
               [construction(last.pre) EXCEPT !.runtime = "Immediate"])
              EXCEPT !.current_location = last.val.location]

\* C26: compiling one token does exactly one of these: a Word or Number
\* token that names a defined word is executed at compile time if the word
\* is Immediate and otherwise emits Execute(handler index); a Word that
\* names no defined word emits Execute(name); a Number or String that does
\* not match a word emits PushConstantValue; a String token is never looked
\* up as a word.
C26_TokenCompilesOneWay ==
    ProcessedToken =>
        CASE NamesWord(last.val.token) ->
                 IF find_word(last.pre, TokenText(last.val.token)).runtime
                        = "Immediate"
                 THEN ExecutedAtCompileTime
                 ELSE Emitted(Instr("Execute",
                          IntV(find_word(last.pre,
                                   TokenText(last.val.token)).handler_index),
                          last.val.location))
          [] OTHER ->
                 IF last.val.token.kind = "Word"
                 THEN Emitted(Instr("Execute", StrV(last.val.token.s),
                                    last.val.location))
                 ELSE Emitted(Instr("PushConstantValue",
                          IF last.val.token.kind = "Number"
                          THEN last.val.token.num
                          ELSE StrV(last.val.token.s),
                          last.val.location))

\* A String token with the text of a defined word was compiled after a
\* Number token that names a defined word.
C26_Witness ==
    /\ ProcessedToken
    /\ last.val.token = StringToken("dup")
    /\ construction(Cur).code =
           << Instr("Execute", IntV(find_word(Cur, "1").handler_index), 1),
              Instr("PushConstantValue", StrV("dup"), 2) >>

\* The immediate word of a token was run while compiling.
CompiledImmediateWord ==
    /\ ProcessedToken
    /\ last.val.token = WordToken("immediate")
    /\ construction(Cur).runtime = "Immediate"
    /\ construction(last.pre).runtime = "Normal"

\* ------------------------------------------------------- jump resolution

is_jump(instruction) ==
    instruction.op \in {"Jump", "JumpIfZero", "JumpIfNotZero", "MarkLoopExit",
                        "MarkCatch"}

\* The operand as a label: a string is one, a number or None is not.
string_val(value) ==
    IF is_string(value) THEN SomeName(value.s) ELSE NoName

jump_label(instruction) ==
    IF is_jump(instruction) THEN string_val(instruction.value) ELSE NoName

\* The first loop of resolve_jumps: the index (from 0) of the last
\* JumpTarget of every label, the label being the operand as it prints.
TargetsOf(code, label) ==
    { i \in 1..Len(code) :
          /\ code[i].op = "JumpTarget"
          /\ ValueStr(code[i].value) = label }

TargetLabels(code) ==
    { ValueStr(code[i].value) :
          i \in { k \in 1..Len(code) : code[k].op = "JumpTarget" } }

jump_targets(code) ==
    [label \in TargetLabels(code) |->
        (CHOOSE t \in TargetsOf(code, label) :
             \A u \in TargetsOf(code, label) : u <= t) - 1]

\* jump_targets[&jump_label] panics for a label that is not in the map.
resolve_panics(code) ==
    \E j \in 1..Len(code) :
        /\ jump_label(code[j]).some
        /\ jump_label(code[j]).name \notin TargetLabels(code)

\* Every labelled jump gets its own index as the operand.
resolved_to_own_index(code) ==
    [i \in 1..Len(code) |->
        IF code[i].op = "JumpTarget" THEN [code[i] EXCEPT !.value = NoneV]
        ELSE IF jump_label(code[i]).some
        THEN [code[i] EXCEPT !.value = IntV(i - 1)]
        ELSE code[i]]

\* Every jump is looked up in the map, labelled or not.
resolved_unconditionally(code) ==
    [i \in 1..Len(code) |->
        IF code[i].op = "JumpTarget" THEN [code[i] EXCEPT !.value = NoneV]
        ELSE IF is_jump(code[i])
        THEN [code[i] EXCEPT !.value =
                 IntV(jump_targets(code)[ValueStr(code[i].value)] - (i - 1))]
        ELSE code[i]]

resolved(code) ==
    [i \in 1..Len(code) |->
        IF code[i].op = "JumpTarget" THEN [code[i] EXCEPT !.value = NoneV]
        ELSE IF jump_label(code[i]).some
        THEN [code[i] EXCEPT !.value =
                 IntV(jump_targets(code)[jump_label(code[i]).name] - (i - 1))]
        ELSE code[i]]

CodeOk(code) == [kind |-> "ok", code |-> code]
CodePanic(code) == [kind |-> "panic", code |-> code]

\* resolve_jumps that panics on every jump that has no label left.
resolve_jumps_unconditional(code) ==
    IF \E j \in 1..Len(code) :
           is_jump(code[j]) /\ ValueStr(code[j].value) \notin TargetLabels(code)
    THEN CodePanic(code)
    ELSE CodeOk(resolved_unconditionally(code))

\* resolve_jumps that stores the jump's index instead of the distance.
resolve_jumps_absolute(code) ==
    IF resolve_panics(code) THEN CodePanic(code)
    ELSE CodeOk(resolved_to_own_index(code))

resolve_jumps(code) ==
    IF resolve_panics(code) THEN CodePanic(code) ELSE CodeOk(resolved(code))

\* code.resolve_jumps
word_code_resolve_jumps(I) ==
    IF context_panics(I) THEN Panic(I)
    ELSE IF construction_fails(I)
    THEN ErrNoLocation(I, "Accessing an empty construction context.")
    ELSE IF resolve_jumps(construction(I).code).kind = "panic" THEN Panic(I)
    ELSE Ok(with_construction(I,
            [construction(I) EXCEPT !.code = resolve_jumps(@).code]))

\* ---------------------------------------- specification: jump resolution

MaxBlock == 3

\* Instructions as the op.* words put them into a block: jumps and targets
\* with labels, a jump that carries a distance already, and a constant.
BlockInstructions ==
    { Instr("Jump", StrV("a"), NoLoc), Instr("JumpIfZero", StrV("b"), NoLoc),
      Instr("JumpIfNotZero", StrV("a"), NoLoc),
      Instr("MarkLoopExit", StrV("b"), NoLoc),
      Instr("MarkCatch", StrV("a"), NoLoc),
      Instr("JumpTarget", StrV("a"), NoLoc),
      Instr("JumpTarget", StrV("b"), NoLoc),
      Instr("Jump", IntV(1), NoLoc),
      Instr("PushConstantValue", IntV(1), 1) }

\* A word that is run while compiling has built the block in the
\* construction of its context.
InitResolve ==
    \E code \in SeqsUpTo(BlockInstructions, MaxBlock) :
        HostCalls(with_construction(context_new(StartInterpreter, << >>),
                                    Construction(code)))

\* The word code.resolve_jumps is run; last.val tells whether the block had
\* been resolved before.
ResolveJumps ==
    /\ status = "running"
    /\ frames = << >>
    /\ SetCur(word_code_resolve_jumps(Cur).I)
    /\ status' = IF word_code_resolve_jumps(Cur).kind = "panic"
                 THEN "panicked" ELSE status
    /\ last' = [Last("resolve_jumps", NoInstr,
                     word_code_resolve_jumps(Cur).kind,
                     word_code_resolve_jumps(Cur).err, Cur, frames,
                     word_code_resolve_jumps(Cur).err)
                EXCEPT !.val = [again |-> last.op = "resolve_jumps"]]
    /\ UNCHANGED << frames, pair >>

NextResolve ==
    \/ ResolveJumps

SpecResolve == InitResolve /\ [][NextResolve]_vars

\* ----------------------------------------- properties: jump resolution

ResolvedJumps ==
    /\ last.op = "resolve_jumps"
    /\ last.kind = "ok"

\* The block before the last resolution and after it.
BlockBefore == construction(last.pre).code
BlockAfter == construction(Cur).code

\* Instruction i was a jump with a label.
Labelled(i) == is_jump(BlockBefore[i]) /\ is_string(BlockBefore[i].value)

\* Instruction i carries the distance to a JumpTarget of its label.
CarriesDistance(i) ==
    /\ BlockAfter[i].op = BlockBefore[i].op
    /\ BlockAfter[i].location = BlockBefore[i].location
    /\ \E t \in 1..Len(BlockBefore) :
           /\ BlockBefore[t].op = "JumpTarget"
           /\ BlockBefore[t].value = BlockBefore[i].value
           /\ BlockAfter[i].value = IntV(t - i)

\* C27: after jump resolution every Jump, JumpIfZero, JumpIfNotZero,
\* MarkLoopExit and MarkCatch with a label L at index j carries the signed
\* distance t - j to the JumpTarget L at index t, every JumpTarget has the
\* operand None, and the number and order of the instructions and all other
\* operands are unchanged.
C27_JumpsCarryDistances ==
    ResolvedJumps =>
        /\ Len(BlockAfter) = Len(BlockBefore)
        /\ \A i \in 1..Len(BlockBefore) :
               CASE Labelled(i) -> CarriesDistance(i)
                 [] BlockBefore[i].op = "JumpTarget" ->
                        BlockAfter[i] = [BlockBefore[i] EXCEPT !.value = NoneV]
                 [] OTHER -> BlockAfter[i] = BlockBefore[i]
        /\ Cur = with_construction(last.pre,
                     [construction(last.pre) EXCEPT !.code = BlockAfter])

\* A backward jump and a forward jump to the same target were resolved.
C27_Witness ==
    /\ ResolvedJumps
    /\ BlockBefore = << Instr("Jump", StrV("a"), NoLoc),
                        Instr("JumpTarget", StrV("a"), NoLoc),
                        Instr("MarkCatch", StrV("a"), NoLoc) >>
    /\ BlockAfter = << Instr("Jump", IntV(1), NoLoc),
                       Instr("JumpTarget", NoneV, NoLoc),
                       Instr("MarkCatch", IntV(-1), NoLoc) >>

\* A jump of the block has a label that no JumpTarget of the block has.
UnresolvableLabel ==
    \E i \in 1..Len(BlockBefore) :
        /\ Labelled(i)
        /\ \A t \in 1..Len(BlockBefore) :
               BlockBefore[t].op = "JumpTarget" =>
                   BlockBefore[t].value # BlockBefore[i].value

\* C28: resolving the jumps of a block with a label that has no JumpTarget
\* returns a compile error to the caller and does not abort the process.
C28_MissingTargetIsCompileError ==
    (last.op = "resolve_jumps" /\ UnresolvableLabel) =>
        /\ last.kind = "err"
        /\ status # "panicked"

\* What the code does: the process aborts.
MissingTargetAborts ==
    (last.op = "resolve_jumps" /\ UnresolvableLabel) =>
        /\ last.kind = "panic"
        /\ status = "panicked"

ResolvedMissingTarget ==
    /\ last.op = "resolve_jumps"
    /\ UnresolvableLabel

ResolvedAgain ==
    /\ last.op = "resolve_jumps"
    /\ last.val.again

JumpInstructions ==
    { Instr("Jump", IntV(-1), NoLoc), Instr("Jump", IntV(2), NoLoc),
      Instr("JumpIfZero", IntV(-1), NoLoc),
      Instr("JumpIfZero", IntV(2), NoLoc),
      Instr("JumpIfNotZero", IntV(-1), NoLoc),
      Instr("JumpIfNotZero", IntV(2), NoLoc),
      Instr("JumpTarget", NoneV, NoLoc) }

JumpStacks == SeqsUpTo({BoolV(TRUE), BoolV(FALSE)}, MaxStack)

InitJumps ==
    \E code \in SeqsUpTo(JumpInstructions, MaxCode), s \in JumpStacks :
        InitWith([StartInterpreter EXCEPT !.stack = s], code)

NextJumps ==
    \/ Jump
    \/ JumpIfZero
    \/ JumpIfNotZero
    \/ JumpTarget
    \/ Return

SpecJumps == InitJumps /\ [][NextJumps]_vars

\* ------------------------------------------------------ properties: jumps

\* The block, the index and the distance of the jump that was executed last.
JumpBlock == last.pre_frames[Len(last.pre_frames)].code
JumpIndex == last.pre_frames[Len(last.pre_frames)].pc
JumpDistance == last.instr.value.v

\* The boolean a conditional jump finds on the stack.
FoundValue == get_bool_val(last.pre.stack[Len(last.pre.stack)])

ConditionalJump ==
    /\ last.op \in {"JumpIfZero", "JumpIfNotZero"}
    /\ last.pre.stack # << >>

\* The jump is taken: a Jump, a JumpIfZero that finds false or a
\* JumpIfNotZero that finds true.
JumpTaken ==
    \/ last.op = "Jump"
    \/ ConditionalJump /\ last.op = "JumpIfZero" /\ ~ FoundValue
    \/ ConditionalJump /\ last.op = "JumpIfNotZero" /\ FoundValue

JumpNotTaken == ConditionalJump /\ ~ JumpTaken

InsideBlock(index) == 0 <= index /\ index < Len(JumpBlock)

\* The run goes on in the same block with the instruction at the index.
ContinuesAt(index) ==
    /\ status = "running"
    /\ Len(frames) = Len(last.pre_frames)
    /\ frames[Len(frames)].pc = index

\* C30: a Jump at index p with distance r, a JumpIfZero that pops false and
\* a JumpIfNotZero that pops true make p + r the next instruction whenever
\* 0 <= p + r < len(code), a backward jump to index 0 included; a
\* conditional jump that does not match pops the boolean and continues at
\* p + 1.
C30_JumpsReachTheirTarget ==
    /\ (JumpTaken /\ InsideBlock(JumpIndex + JumpDistance)) =>
           ContinuesAt(JumpIndex + JumpDistance)
    /\ JumpNotTaken =>
           /\ ContinuesAt(JumpIndex + 1)
           /\ stack = SubSeq(last.pre.stack, 1, Len(last.pre.stack) - 1)

\* What the code does: every jump to an index from 1 on is as claimed, and
\* so is a conditional jump that does not match.
JumpsBeyondFirstReachTheirTarget ==
    /\ (/\ JumpTaken
        /\ InsideBlock(JumpIndex + JumpDistance)
        /\ JumpIndex + JumpDistance > 0) =>
           ContinuesAt(JumpIndex + JumpDistance)
    /\ JumpNotTaken =>
           /\ ContinuesAt(JumpIndex + 1)
           /\ stack = SubSeq(last.pre.stack, 1, Len(last.pre.stack) - 1)

\* A jump to index 0 aborts the run or reaches index 0, as the build has it.
JumpToFirstAbortsOrArrives ==
    (JumpTaken /\ JumpIndex + JumpDistance = 0) =>
        \/ status = "panicked"
        \/ ContinuesAt(0)

JumpToFirstAborted ==
    /\ JumpTaken
    /\ JumpIndex + JumpDistance = 0
    /\ status = "panicked"

JumpToFirstArrived ==
    /\ JumpTaken
    /\ JumpIndex + JumpDistance = 0
    /\ ContinuesAt(0)

ForwardJumpTaken ==
    /\ ConditionalJump
    /\ JumpTaken
    /\ JumpDistance = 2
    /\ ContinuesAt(JumpIndex + 2)

\* -------------------------------------------------- specification: loops

\* The loops that are open in the running block, as the instructions that
\* were executed opened and closed them: pair.open after the last step and
\* pair.before ahead of it.  A loop is the index of its MarkLoopExit and the
\* distance that instruction carries.
OpenLoops == IF "open" \in DOMAIN pair THEN pair.open ELSE << >>

OpenedLoop == [mark |-> frames[Len(frames)].pc,
               distance |-> frames[Len(frames)].code[
                                frames[Len(frames)].pc + 1].value.v]

OpenAfter(op, kind) ==
    CASE kind = "ok" /\ op = "MarkLoopExit" -> Append(OpenLoops, OpenedLoop)
      [] kind = "ok" /\ op = "UnmarkLoopExit" ->
             SubSeq(OpenLoops, 1, Len(OpenLoops) - 1)
      [] OTHER -> OpenLoops

\* One pass of the loop of execute_code, with the open loops recorded.
RunLoop(op) ==
    \E overflow_checks \in BOOLEAN :
        /\ Record(op, op_result(Cur, frames, overflow_checks),
                  step(Cur, frames, overflow_checks))
        /\ pair' = [open |-> OpenAfter(op, op_result(Cur, frames,
                                              overflow_checks).kind),
                    before |-> OpenLoops]

MarkLoopExit == AtInstruction("MarkLoopExit") /\ RunLoop("MarkLoopExit")
UnmarkLoopExit == AtInstruction("UnmarkLoopExit") /\ RunLoop("UnmarkLoopExit")
JumpLoopStart == AtInstruction("JumpLoopStart") /\ RunLoop("JumpLoopStart")
JumpLoopExit == AtInstruction("JumpLoopExit") /\ RunLoop("JumpLoopExit")

LoopInstructions ==
    { Instr("MarkLoopExit", IntV(2), NoLoc),
      Instr("MarkLoopExit", IntV(3), NoLoc),
      Instr("UnmarkLoopExit", NoneV, NoLoc),
      Instr("JumpLoopStart", NoneV, NoLoc),
      Instr("JumpLoopExit", NoneV, NoLoc),
      Instr("JumpTarget", NoneV, NoLoc) }

\* A loop in a loop: the inner loop is left and closed, then the jump at
\* index 4 leaves or repeats the outer loop.
NestedLoops(jump) ==
    << Instr("MarkLoopExit", IntV(6), NoLoc),
       Instr("MarkLoopExit", IntV(2), NoLoc),
       Instr("JumpLoopExit", NoneV, NoLoc),
       Instr("UnmarkLoopExit", NoneV, NoLoc),
       Instr(jump, NoneV, NoLoc),
       Instr("JumpLoopStart", NoneV, NoLoc),
       Instr("UnmarkLoopExit", NoneV, NoLoc) >>

InitLoops ==
    \/ \E code \in SeqsUpTo(LoopInstructions, MaxCode) :
           InitWith(StartInterpreter, code)
    \/ \E jump \in {"JumpLoopStart", "JumpLoopExit"} :
           InitWith(StartInterpreter, NestedLoops(jump))

NextLoops ==
    \/ MarkLoopExit
    \/ UnmarkLoopExit
    \/ JumpLoopStart
    \/ JumpLoopExit
    \/ JumpTarget
    \/ Return

SpecLoops == InitLoops /\ [][NextLoops]_vars

\* ------------------------------------------------------ properties: loops

\* The innermost loop that was open when the last instruction ran.
InnermostLoop == pair.before[Len(pair.before)]

InLoop == "before" \in DOMAIN pair /\ pair.before # << >>
OutsideLoops == "before" \in DOMAIN pair /\ pair.before = << >>

\* C31: with nested loops JumpLoopStart and JumpLoopExit transfer control to
\* the start (the instruction after MarkLoopExit) and to the recorded end of
\* the innermost loop whose MarkLoopExit has executed and whose
\* UnmarkLoopExit has not, after an inner loop's UnmarkLoopExit to those of
\* the enclosing loop; with no such loop JumpLoopStart, JumpLoopExit and
\* UnmarkLoopExit return an error.
C31_LoopJumpsFollowInnermostLoop ==
    /\ (last.op = "JumpLoopStart" /\ InLoop) =>
           ContinuesAt(InnermostLoop.mark + 1)
    /\ (last.op = "JumpLoopExit" /\ InLoop) =>
           ContinuesAt(InnermostLoop.mark + InnermostLoop.distance)
    /\ (/\ last.op \in {"JumpLoopStart", "JumpLoopExit", "UnmarkLoopExit"}
        /\ OutsideLoops) =>
           /\ last.kind = "err"
           /\ status = "error"

\* The inner loop has been closed and the jump leaves the outer loop.
C31_Witness ==
    /\ last.op = "JumpLoopExit"
    /\ JumpIndex = 4
    /\ Len(pair.before) = 1
    /\ ContinuesAt(6)

\* After the inner loop was closed the outer loop is repeated.
RepeatedOuterLoop ==
    /\ last.op = "JumpLoopStart"
    /\ JumpIndex = 4
    /\ ContinuesAt(1)

LoopJumpOutsideLoop ==
    /\ last.op = "JumpLoopExit"
    /\ OutsideLoops
    /\ last.kind = "err"

\* ------------------------------------- specification: contexts of a block

\* The scopes the MarkContext instructions of the block pushed and no
\* ReleaseContext has matched yet, each by its depth in the dictionary,
\* innermost last.
MarkedScopes == IF "marked" \in DOMAIN pair THEN pair.marked ELSE << >>

MarkedAfter(op, kind, depth) ==
    CASE kind = "ok" /\ op = "MarkContext" -> Append(MarkedScopes, depth)
      [] kind = "ok" /\ op = "ReleaseContext" ->
             SubSeq(MarkedScopes, 1, Len(MarkedScopes) - 1)
      [] OTHER -> MarkedScopes

\* One pass of the loop of execute_code, with the marked scopes recorded.
RunMarked(op) ==
    \E overflow_checks \in BOOLEAN :
        /\ Record(op, op_result(Cur, frames, overflow_checks),
                  step(Cur, frames, overflow_checks))
        /\ pair' = [marked |->
                        MarkedAfter(op,
                                    op_result(Cur, frames,
                                              overflow_checks).kind,
                                    Len(dictionary'))]

MarkScope == AtInstruction("MarkContext") /\ RunMarked("MarkContext")
MatchScope == AtInstruction("ReleaseContext") /\ RunMarked("ReleaseContext")

MarkedInstructions ==
    { Instr("MarkContext", NoneV, NoLoc), Instr("ReleaseContext", NoneV, NoLoc),
      Instr("DefVariable", StrV("drop"), NoLoc) }

InitMarked ==
    \E code \in SeqsUpTo(MarkedInstructions, MaxCode) :
        InitWith(StartInterpreter, Compiled(code))

NextMarked ==
    \/ MarkScope
    \/ MatchScope
    \/ DefVariable
    \/ Return

SpecMarked == InitMarked /\ [][NextMarked]_vars

\* ------------------------------ properties: contexts left at a block's end

\* The last step was the end of a block.
BlockEnded == last.op = "Return" /\ last.pre_frames # << >>

\* The contexts the block's execution marked and did not match.
UnmatchedContexts == LastFrame.contexts

\* The end of the block released as many contexts as were unmatched and
\* reported them; with none unmatched it released nothing.
ReleasedAsManyAsUnmatched ==
    BlockEnded =>
        /\ UnmatchedContexts = Len(MarkedScopes)
        /\ last.kind = (IF UnmatchedContexts > 0 THEN "err" ELSE "ok")
        /\ UnmatchedContexts > 0 =>
               last.err.error = "Unbalanced context handling detected."
        /\ status = (IF UnmatchedContexts > 0 THEN "error" ELSE "done")
        /\ Len(dictionary) = Len(last.pre.dictionary) - UnmatchedContexts
        /\ Len(variables) = Len(last.pre.variables) - UnmatchedContexts

\* C32: when the instructions of a block end with k > 0 contexts marked and not
\* matched by a ReleaseContext, execute_code releases those k contexts, and
\* no other, and returns the error of unbalanced contexts; with every
\* MarkContext matched it returns success and releases nothing.
C32_BlockEndReleasesUnmatchedContexts ==
    /\ ReleasedAsManyAsUnmatched
    /\ BlockEnded =>
           \A k \in 1..Len(MarkedScopes) : Len(dictionary) < MarkedScopes[k]

\* A block ended with two contexts unmatched, and both were released.
TwoUnmatchedReleased ==
    /\ BlockEnded
    /\ UnmatchedContexts = 2
    /\ status = "error"
    /\ Len(dictionary) = Len(last.pre.dictionary) - 2
    /\ Len(dictionary) < MarkedScopes[1]

\* A block ended after a MarkContext and the ReleaseContext matching it.
MatchedBlockEnded ==
    /\ BlockEnded
    /\ UnmatchedContexts = 0
    /\ status = "done"
    /\ \E k \in 1..Len(LastFrame.code) : LastFrame.code[k].op = "ReleaseContext"

\* A block ended with the scope of an unmatched MarkContext left in the
\* dictionary.
UnmatchedScopeLeft ==
    /\ BlockEnded
    /\ \E k \in 1..Len(MarkedScopes) : Len(dictionary) >= MarkedScopes[k]

\* --------------------------------------- specification: word definitions

MaxSource == 3

\* The words of the construction stack that are not immediate.
ConstructionWords ==
    << <<"code.merge_stack_block", "word_code_merge_stack_block", << >> >>,
       <<"code.pop_stack_block", "word_code_pop_stack_block", << >> >> >>

\* The built-in words with `:` and `;`, and the user's context.
DefineInterpreter ==
    mark_context(
        add_immediate_word(
            add_immediate_word(
                register_words(register_words(NewInterpreter, BuiltIns),
                               ConstructionWords),
                ":", NativeHandler("word_start_word")),
            ";", NativeHandler("word_end_word")))

DefineTokens ==
    { WordToken(":"), WordToken(";"), WordToken("w"), WordToken("dup"),
      NumberToken(IntV(1)), StringToken("w") }

\* A word is defined and used.
DefinedAndUsed ==
    << WordToken(":"), WordToken("w"), NumberToken(IntV(1)), WordToken(";"),
       WordToken("w") >>

InitDefine ==
    \/ \E tokens \in SeqsUpTo(DefineTokens, MaxSource) :
           HostCalls(context_new(DefineInterpreter, LocatedTokens(tokens)))
    \/ HostCalls(context_new(DefineInterpreter, LocatedTokens(DefinedAndUsed)))

\* An immediate word of the script, run for a token, executes a word of the
\* construction stack; its error is the error of the token.
ExecuteConstructionWord ==
    /\ status = "running"
    /\ frames = << >>
    /\ TokenLeft
    /\ Len(stack) < MaxStack
    /\ \E k \in 1..Len(ConstructionWords) :
         LET r == Outcome(execute_word(Cur, NoLoc,
                              find_word(Cur, ConstructionWords[k][1])))
         IN /\ SetCur(IF r.kind = "err" THEN context_drop(r.I).I ELSE r.I)
            /\ status' = CASE r.kind = "ok" -> status
                           [] r.kind = "err" -> "error"
                           [] r.kind = "panic" -> "panicked"
            /\ last' = [Last("execute_word", NoInstr, r.kind, r.err, Cur,
                             frames, r.err)
                        EXCEPT !.val = StrV(ConstructionWords[k][1])]
    /\ UNCHANGED << frames, pair >>

NextDefine ==
    \/ ProcessToken
    \/ ExecuteConstructionWord
    \/ ExecuteCompiledCode
    \/ Execute
    \/ PushConstantValue
    \/ Return

SpecDefine == InitDefine /\ [][NextDefine]_vars

\* ------------------------------------------- properties: word definitions

\* The last step processed the Word token of this text.
ProcessedWord(text) ==
    /\ last.op = "process_token"
    /\ last.val.token.kind = "Word"
    /\ last.val.token.s = text

\* The last step executed this word of the construction stack.
ExecutedConstructionWord(name) ==
    /\ last.op = "execute_word"
    /\ last.val = StrV(name)

\* The constructions of the context before the last step.
ConstructionsBefore == context(last.pre).constructions

\* No construction that a `:` of the source pushed was left: the stack was
\* empty or held the body of the top level only, which has no name.
NoConstructionPushed ==
    \/ ConstructionsBefore = << >>
    \/ /\ Len(ConstructionsBefore) = 1
       /\ ConstructionsBefore[1].name = ""

\* The last step was a `;`, a code.pop_stack_block or a
\* code.merge_stack_block with no construction push to match it.
UnmatchedPop ==
    /\ \/ ProcessedWord(";")
       \/ ExecutedConstructionWord("code.pop_stack_block")
       \/ ExecutedConstructionWord("code.merge_stack_block")
    /\ NoConstructionPushed

\* C33: a `;`, a code.pop_stack_block or a code.merge_stack_block that no
\* earlier construction push of the source matches returns a compile error:
\* the body of the top level is not taken and no word is defined.
C33_UnmatchedPopIsCompileError ==
    UnmatchedPop =>
        /\ last.kind = "err"
        /\ status = "error"
        /\ dictionary = last.pre.dictionary
        /\ word_handlers = last.pre.word_handlers
        /\ stack = last.pre.stack

\* A `;` without a `:` succeeded: it took the body of the top level and
\* defined a word of the empty name from it.
TopLevelBodyBecameWord ==
    /\ ProcessedWord(";")
    /\ NoConstructionPushed
    /\ last.kind = "ok"
    /\ context(Cur).constructions = << >>
    /\ Dictionary_has(dictionary, "")
    /\ ~ Dictionary_has(last.pre.dictionary, "")
    /\ ConstructionsBefore[1].code # << >>

\* A code.pop_stack_block without a push succeeded: the body of the top
\* level is on the data stack.
TopLevelBodyPopped ==
    /\ ExecutedConstructionWord("code.pop_stack_block")
    /\ NoConstructionPushed
    /\ last.kind = "ok"
    /\ context(Cur).constructions = << >>
    /\ stack = Append(last.pre.stack, CodeV(ConstructionsBefore[1].code))

\* An unmatched code.merge_stack_block returned an error.
UnmatchedMergeFailed ==
    /\ ExecutedConstructionWord("code.merge_stack_block")
    /\ NoConstructionPushed
    /\ last.kind = "err"

\* A `;` after a `:` defined the word.
WordDefined ==
    /\ ProcessedWord(";")
    /\ ~ NoConstructionPushed
    /\ last.kind = "ok"
    /\ Dictionary_has(dictionary, "w")

\* The last step was a step of compilation that failed: a token, a word an
\* immediate word executed, or the reading of the compiled code.
CompileFailed ==
    /\ last.op \in {"process_token", "execute_word", "construction"}
    /\ last.kind = "err"

\* The last step read the compiled code and started its execution.
ExecutionStarted == last.op = "construction" /\ last.kind = "ok"

\* process_source has returned.
Returned == status \in {"done", "error"}

\* C34: process_source compiles every token before it executes top-level
\* code; when a token fails to compile the error is returned and no emitted
\* instruction is executed; when process_source returns, with success or with
\* an error, the compilation context it pushed has been dropped.
C34_CompilesThenExecutes ==
    /\ ExecutionStarted => ~ tokens_left(last.pre)
    /\ frames # << >> => constructors = << >>
    /\ CompileFailed =>
           /\ status = "error"
           /\ last.out_err = last.err
           /\ last.pre_frames = << >>
           /\ frames = << >>
    /\ Returned => Len(constructors) = Len(DefineInterpreter.constructors)

\* A token failed to compile after instructions had been emitted at the top
\* level: the error was returned, nothing was executed and the context was
\* dropped.
C34_Witness ==
    /\ CompileFailed
    /\ last.op = "process_token"
    /\ context(last.pre).constructions # << >>
    /\ context(last.pre).constructions[1].code # << >>
    /\ status = "error"
    /\ frames = << >>
    /\ constructors = << >>

\* The compiled code of a source was executed to its end.
CompiledCodeExecuted ==
    /\ status = "done"
    /\ last.op = "Return"
    /\ stack # << >>
    /\ constructors = << >>

\* The execution of the compiled code failed.
CompiledCodeFailed ==
    /\ status = "error"
    /\ last.op = "Execute"
    /\ constructors = << >>

\* The code the last step handed to execute_code.
CodeExecuted == frames[1].code

\* C40: the code process_source executes when the tokens are used up is the
\* code emitted at the top level, the bottom construction of the stack:
\* instructions emitted inside a definition opened with `:` are not executed
\* as top-level code, also when the source ends before the `;`.
C40_TopLevelCodeIsExecuted ==
    ExecutionStarted =>
        CodeExecuted = context(last.pre).constructions[1].code

\* The source ended inside a definition: the instructions of the unfinished
\* word were executed and those of the top level were not.
UnfinishedWordExecuted ==
    /\ ExecutionStarted
    /\ Len(context(last.pre).constructions) = 2
    /\ context(last.pre).constructions[2].name = "w"
    /\ CodeExecuted = context(last.pre).constructions[2].code
    /\ CodeExecuted # context(last.pre).constructions[1].code

\* The source ended outside every definition and its top-level code was
\* executed.
TopLevelCodeExecuted ==
    /\ ExecutionStarted
    /\ Len(context(last.pre).constructions) = 1
    /\ context(last.pre).constructions[1].name = ""
    /\ CodeExecuted = context(last.pre).constructions[1].code
    /\ CodeExecuted # << >>

\* ------------------------------------------ specification: source files

\* The directory the process runs in and the directories with sources.
WorkDir == "/cwd"
SourceDirs == {"/app", "/lib"}
FileNames == {"a.f", "b.f"}

\* A file of the file system, by its canonical path.
File(dir, name) == << dir, name >>
NoFile == << "", "" >>
Directory(file) == file[1]

\* What a file holds: nothing (it does not exist), a text the tokenizer
\* rejects, or a source.  Of a source the model keeps what matters for the
\* search paths, in the order it happens: the files it includes, and an
\* error of compilation or of execution that ends it.
Missing == [kind |-> "missing", steps |-> << >>]
Untokenizable == [kind |-> "untokenizable", steps |-> << >>]
Source(steps) == [kind |-> "source", steps |-> steps]
Include(path) == [do |-> "include", path |-> path]
CompileError == [do |-> "compile error", path |-> ""]
RuntimeError == [do |-> "runtime error", path |-> ""]

\* The file systems of the model: a.f in the working directory hides the
\* a.f of every search path; /app/a.f includes other files; b.f fails in
\* each of the ways a source can fail.
FileSystems ==
    { [f \in ({WorkDir} \cup SourceDirs) \X FileNames |->
          CASE f = File(WorkDir, "a.f") -> cwd_a
            [] f = File("/app", "a.f") -> app_a
            [] f = File("/lib", "a.f") -> lib_a
            [] f = File("/app", "b.f") -> app_b
            [] f = File("/lib", "b.f") -> lib_b
            [] OTHER -> Missing] :
        cwd_a \in {Missing, Source(<< >>)},
        app_a \in {Missing, Source(<< Include("b.f") >>),
                   Source(<< Include("b.f"), Include("b.f") >>)},
        lib_a \in {Missing, Source(<< >>)},
        app_b \in {Missing, Untokenizable, Source(<< >>),
                   Source(<< CompileError >>), Source(<< RuntimeError >>)},
        lib_b \in {Missing, Source(<< RuntimeError >>),
                   Source(<< Include("a.f") >>)} }

\* The result of find_file and of process_source_file, with the record of
\* the calls of find_file made so far.
FileRes(kind, I, err, found, calls) ==
    [kind |-> kind, I |-> I, err |-> err, found |-> found, calls |-> calls]

\* The scan of the search paths, from the one added last.
RECURSIVE find_in_search_paths(_, _, _, _)
find_in_search_paths(files, paths, path, k) ==
    IF k = 0 THEN NoFile
    ELSE IF files[File(paths[k], path)].kind # "missing"
    THEN File(paths[k], path)
    ELSE find_in_search_paths(files, paths, path, k - 1)

\* find_file that scans the search paths from the one added first.
find_file_oldest_first(files, paths, path) ==
    IF files[File(WorkDir, path)].kind # "missing" THEN File(WorkDir, path)
    ELSE IF \E k \in 1..Len(paths) : files[File(paths[k], path)].kind # "missing"
    THEN File(paths[CHOOSE k \in 1..Len(paths) :
                   /\ files[File(paths[k], path)].kind # "missing"
                   /\ \A j \in 1..(k - 1) :
                          files[File(paths[j], path)].kind = "missing"],
              path)
    ELSE NoFile

\* find_file: the path as it is, relative to the working directory, then
\* the search paths; NoFile for the error "File ... not found.".
find_file(files, paths, path) ==
    IF files[File(WorkDir, path)].kind # "missing" THEN File(WorkDir, path)
    ELSE find_in_search_paths(files, paths, path, Len(paths))

\* add_search_path_for_file: the directory of the file exists.
add_search_path_for_file(I, file) ==
    [I EXCEPT !.search_paths = Append(@, Directory(file))]

drop_search_path(I) ==
    IF I.search_paths = << >>
    THEN Err(I, "Search path stack underflow.")
    ELSE Ok([I EXCEPT !.search_paths = SubSeq(@, 1, Len(@) - 1)])

\* The call of find_file, recorded: the file being processed, the search
\* paths, the path asked for and the file found.
Consulted(active, paths, path, found) ==
    [in |-> IF active = << >> THEN NoFile ELSE active[Len(active)],
     paths |-> paths, path |-> path, found |-> found]

\* The end of process_source_file: the search path is dropped and the result
\* of the source is returned.
dropped(r) ==
    IF r.kind = "panic" THEN r
    ELSE IF drop_search_path(r.I).kind # "ok"
    THEN FileRes("err", r.I, drop_search_path(r.I).err, r.found, r.calls)
    ELSE FileRes(r.kind, drop_search_path(r.I).I, r.err, r.found, r.calls)

RECURSIVE process_source_file(_, _, _, _, _)
RECURSIVE process_source_from_tokens(_, _, _, _, _)

\* The file found is tokenized and, with its directory as a search path,
\* compiled and executed.  A file that is included while it is being
\* processed is processed again without end: the process runs out of stack.
process_found(I, files, path, found, active, calls) ==
    IF found = NoFile
    THEN FileRes("err", I, Err(I, "File " \o path \o " not found.").err,
                 found, calls)
    ELSE IF files[found].kind = "untokenizable"
    THEN FileRes("err", I, Err(I, "Unexpected end of file.").err, found, calls)
    ELSE IF \E k \in 1..Len(active) : active[k] = found
    THEN FileRes("panic", I, NoErr, found, calls)
    ELSE dropped(process_source_from_tokens(
                     add_search_path_for_file(I, found), files,
                     files[found].steps, Append(active, found), calls))

process_source_file(I, files, path, active, calls) ==
    process_found(I, files, path,
                  find_file(files, I.search_paths, path), active,
                  Append(calls, Consulted(active, I.search_paths, path,
                             find_file(files, I.search_paths, path))))

\* The rest of the source continues after an include that succeeded.
continued(r, files, steps, active) ==
    IF r.kind # "ok" THEN r
    ELSE process_source_from_tokens(r.I, files, steps, active, r.calls)

process_source_from_tokens(I, files, steps, active, calls) ==
    IF steps = << >> THEN FileRes("ok", I, NoErr, NoFile, calls)
    ELSE IF Head(steps).do = "include"
    THEN continued(process_source_file(I, files, Head(steps).path, active,
                                       calls),
                   files, Tail(steps), active)
    ELSE FileRes("err", I, Err(I, Head(steps).do).err, NoFile, calls)

SearchPaths ==
    { << >>, << "/lib" >>, << "/app" >>, << "/lib", "/app" >>,
      << "/app", "/lib" >> }

\* The host has set up its search paths.
InitFiles ==
    \E paths \in SearchPaths :
        HostCalls([NewInterpreter EXCEPT !.search_paths = paths])

\* The host calls process_source_file for a path, with some files on the
\* disk; the files and the calls of find_file are recorded beside the run.
ProcessSourceFile ==
    /\ status = "running"
    /\ frames = << >>
    /\ \E files \in FileSystems, path \in FileNames :
         LET r == process_source_file(Cur, files, path, << >>, << >>)
         IN /\ SetCur(r.I)
            /\ status' = CASE r.kind = "ok" -> "done"
                           [] r.kind = "err" -> "error"
                           [] r.kind = "panic" -> "panicked"
            /\ last' = [Last("process_source_file", NoInstr, r.kind, r.err,
                             Cur, frames, r.err)
                        EXCEPT !.val = StrV(path)]
            /\ pair' = [files |-> files, calls |-> r.calls]
    /\ UNCHANGED frames

NextFiles == ProcessSourceFile

SpecFiles == InitFiles /\ [][NextFiles]_vars

\* ---------------------------------------------- properties: source files

FileProcessed == last.op = "process_source_file"

\* The calls of find_file of the last process_source_file, in their order.
FindFileCalls == IF FileProcessed THEN pair.calls ELSE << >>

Exists(file) == pair.files[file].kind # "missing"

\* A call of find_file made while a file was being processed found the
\* directory of that file on top of the search paths, and looked there
\* before any other search path.
LooksInCurrentDirectoryFirst(c) ==
    /\ c.paths # << >>
    /\ c.paths[Len(c.paths)] = Directory(c.in)
    /\ (~ Exists(File(WorkDir, c.path))
        /\ Exists(File(Directory(c.in), c.path))) =>
           c.found = File(Directory(c.in), c.path)

\* C35: process_source_file leaves the search paths as it found them, whether
\* the file is not found, is rejected by the tokenizer, fails to compile,
\* fails when executed or succeeds; while a file is compiled and executed,
\* also around the files it includes, the directory of the file entered last
\* is the top of the search paths, the first of them find_file looks in.
C35_SearchPathsFollowFiles ==
    /\ (FileProcessed /\ status # "panicked") =>
           search_paths = last.pre.search_paths
    /\ \A k \in 1..Len(FindFileCalls) :
           FindFileCalls[k].in # NoFile =>
               LooksInCurrentDirectoryFirst(FindFileCalls[k])

\* A file included b.f twice: the second time, after the first b.f was
\* left, b.f was found in the including file's directory again, not in the
\* search path added before it, and the search paths ended as they began.
C35_Witness ==
    /\ FileProcessed
    /\ status = "done"
    /\ Len(FindFileCalls) = 3
    /\ FindFileCalls[3].in = File("/app", "a.f")
    /\ FindFileCalls[3].found = File("/app", "b.f")
    /\ Exists(File("/lib", "b.f"))
    /\ last.pre.search_paths = << "/lib", "/app" >>
    /\ search_paths = << "/lib", "/app" >>

\* The outcome of the file processed last, or of a file it included.
FileFailedWith(message) ==
    /\ FileProcessed
    /\ status = "error"
    /\ last.err.error = message
    /\ search_paths = last.pre.search_paths
    /\ search_paths # << >>

FileNotFound == FileFailedWith("File a.f not found.")
IncludedFileNotFound ==
    FileFailedWith("File b.f not found.") /\ Len(FindFileCalls) = 2
TokenizerFailed == FileFailedWith("Unexpected end of file.")
CompilationFailed == FileFailedWith("compile error")
ExecutionFailed == FileFailedWith("runtime error")

\* A file in the working directory was taken before the search paths were
\* looked at.
FoundInWorkDir ==
    /\ FileProcessed
    /\ FindFileCalls[1].found = File(WorkDir, "a.f")
    /\ Exists(File("/app", "a.f"))
    /\ last.pre.search_paths = << "/app" >>

\* ------------------------------------ properties: call stack of a block

\* The outermost block returned during the last step: execute_code has
\* returned to the host.
OutermostReturned == BlocksReturned /\ frames = << >>

\* C36: the call stack is as deep when execute_code returns as when it was
\* entered, whether its instructions succeeded, failed without a catch or
\* failed and were caught: the entry pushed for a located instruction is
\* popped once.
C36_CallStackDepthRestored ==
    OutermostReturned =>
        Len(call_stack) = last.pre_frames[1].entry_calls

\* A located instruction failed with no catch location and its entry was
\* popped.
FailedInstructionPopped ==
    /\ OutermostReturned
    /\ status = "error"
    /\ last.op = "Execute"
    /\ last.instr.location # NoLoc
    /\ call_stack = << >>

\* A block returned with success after it had caught an error, and the entry
\* of the instruction that failed is still on the call stack.
CaughtInstructionLeftOnCallStack ==
    /\ OutermostReturned
    /\ status = "done"
    /\ last.pre_frames[1].entry_calls = 0
    /\ Len(call_stack) = 1

\* ------------------------------------ specification: a protected region

\* What follows the MarkCatch of a block: contexts and loops are marked, an
\* instruction fails, and the handler jumps out of a loop or does nothing.
\* The loops end where the longest block ends.
ProtectedInstructions ==
    { Instr("MarkContext", NoneV, NoLoc),
      Instr("MarkLoopExit", IntV(MaxCode), NoLoc),
      Instr("Execute", StrV("undefined"), NoLoc),
      Instr("JumpLoopExit", NoneV, NoLoc), Instr("JumpTarget", NoneV, NoLoc) }

\* A block that starts with its only MarkCatch: at the MarkCatch no loop is
\* open and no context is marked.
InitCatch ==
    \E body \in SeqsUpTo(ProtectedInstructions, MaxCode) :
        \E target \in 1..(Len(body) + 1) :
            InitWith(StartInterpreter,
                     << Instr("MarkCatch", IntV(target), NoLoc) >> \o body)

NextCatch ==
    \/ MarkCatch
    \/ MarkContext
    \/ MarkLoopExit
    \/ JumpLoopExit
    \/ Execute
    \/ JumpTarget
    \/ Return

SpecCatch == InitCatch /\ [][NextCatch]_vars

\* --------------------------------------- properties: a protected region

\* The last instruction failed in the protected region and the error was
\* caught: the handler's first instruction is the next one.
ErrorCaught ==
    /\ FailedUnderCatch
    /\ status = "running"
    /\ frames[1].pc = LastFrame.catch_locations[1]

\* C37: when an error is caught the handler starts with the open loops and
\* the marked contexts of the MarkCatch: the loops opened and the contexts
\* marked in the protected region are gone before its first instruction, so
\* that no unbalanced context is reported and no loop of the region is
\* jumped to afterwards.
C37_CatchRestoresLoopsAndContexts ==
    ErrorCaught =>
        /\ frames[1].loop_locations = << >>
        /\ frames[1].contexts = 0
        /\ Len(dictionary) = frames[1].entry_depth
        /\ Len(variables) = frames[1].entry_depth

\* An error was caught in a region that had marked nothing: the handler
\* starts as the MarkCatch left things.
CaughtWithNothingMarked ==
    /\ ErrorCaught
    /\ LastFrame.loop_locations = << >>
    /\ LastFrame.contexts = 0
    /\ frames[1].loop_locations = << >>
    /\ frames[1].contexts = 0

\* The index of the handler's first instruction.
HandlerIndex == LastFrame.code[1].value.v

\* A handler that marks no context ran to the end of the block, which then
\* reported the context marked in the protected region as unbalanced.
CaughtErrorLeftContext ==
    /\ last.op = "Return"
    /\ last.kind = "err"
    /\ last.err.error = "Unbalanced context handling detected."
    /\ LastFrame.catch_locations = << >>
    /\ stack # << >>
    /\ \A j \in (HandlerIndex + 1)..Len(LastFrame.code) :
           LastFrame.code[j].op # "MarkContext"

\* The handler's JumpLoopExit jumped to the end of a loop that was opened in
\* the protected region.
HandlerJumpedIntoAbandonedLoop ==
    /\ last.op = "JumpLoopExit"
    /\ last.kind = "ok"
    /\ LastFrame.catch_locations = << >>
    /\ stack # << >>
    /\ LastFrame.pc >= HandlerIndex
    /\ LastFrame.loop_locations[Len(LastFrame.loop_locations)].start
           <= HandlerIndex

\* ------------------------------------------ specification: redefinition

\* The interpreter in which the block was compiled: the constant c was
\* defined as 7 in the user's context.
CompiledIndex == CL_len(StartInterpreter.word_handlers)

WithCompiledWord == add_word(StartInterpreter, "c", ConstantHandler(IntV(7)))

\* c is executed by the index it had when the block was compiled and by its
\* name, between instructions that redefine it and mark contexts.
RedefineInstructions ==
    { Instr("PushConstantValue", IntV(2), NoLoc),
      Instr("DefConstant", StrV("c"), NoLoc),
      Instr("MarkContext", NoneV, NoLoc),
      Instr("Execute", IntV(CompiledIndex), NoLoc),
      Instr("Execute", StrV("c"), NoLoc),
      Instr("Execute", StrV("none"), NoLoc) }

\* c is redefined in a context marked later, then executed both ways.
RedefinedInContext ==
    << Instr("MarkContext", NoneV, NoLoc),
       Instr("PushConstantValue", IntV(2), NoLoc),
       Instr("DefConstant", StrV("c"), NoLoc),
       Instr("Execute", IntV(CompiledIndex), NoLoc),
       Instr("Execute", StrV("c"), NoLoc) >>

InitRedefine ==
    \/ \E code \in SeqsUpTo(RedefineInstructions, MaxCode) :
           InitWith(WithCompiledWord, code)
    \/ InitWith(WithCompiledWord, RedefinedInContext)

NextRedefine ==
    \/ PushConstantValue
    \/ DefConstant
    \/ MarkContext
    \/ Execute
    \/ Return

SpecRedefine == InitRedefine /\ [][NextRedefine]_vars

\* ------------------------------------------- properties: redefinition

\* The innermost scope of the dictionary d that defines the name, 0 if none.
InnermostScopeOf(d, name) ==
    IF \E k \in 1..Len(d) : name \in DOMAIN d[k]
    THEN CHOOSE k \in 1..Len(d) :
             /\ name \in DOMAIN d[k]
             /\ \A j \in (k + 1)..Len(d) : name \notin DOMAIN d[j]
    ELSE 0

\* The value of the constant that was the current definition of the name
\* before the last step.
CurrentConstant(name) ==
    CL_index(last.pre.word_handlers,
             last.pre.dictionary[InnermostScopeOf(last.pre.dictionary, name)]
                 [name].handler_index).handler.value

ExecutedByIndex ==
    last.op = "Execute" /\ last.instr.value = IntV(CompiledIndex)

ExecutedByName(name) ==
    last.op = "Execute" /\ last.instr.value = StrV(name)

\* C38: while the scope of a word's definition is not released, the word's
\* handler index invokes that definition whatever is defined or marked
\* later: Execute with the index calls the definition of the time of
\* compilation also after the name was redefined; Execute with the name
\* calls the definition that is current when it is executed, the one made
\* last, and returns the error of a word not found when there is none.
C38_IndexKeepsItsDefinition ==
    /\ ExecutedByIndex =>
           /\ last.kind = "ok"
           /\ stack = Append(last.pre.stack, IntV(7))
    /\ (last.op = "DefConstant" /\ last.kind = "ok") =>
           /\ InnermostScopeOf(dictionary, "c") = Len(dictionary)
           /\ CL_index(word_handlers,
                       dictionary[Len(dictionary)]["c"].handler_index)
                  .handler.value = last.pre.stack[Len(last.pre.stack)]
    /\ ExecutedByName("c") =>
           /\ last.kind = "ok"
           /\ stack = Append(last.pre.stack, CurrentConstant("c"))
    /\ ExecutedByName("none") =>
           /\ last.kind = "err"
           /\ last.err.error = "Word none not found."

\* c was redefined as 2 in a context marked later; Execute with the compiled
\* index still pushed 7.
C38_Witness ==
    /\ ExecutedByIndex
    /\ Len(last.pre.dictionary) > Len(WithCompiledWord.dictionary)
    /\ CurrentConstant("c") = IntV(2)
    /\ stack = << IntV(7) >>

\* After the redefinition Execute with the name pushed 2.
RedefinitionExecutedByName ==
    /\ ExecutedByName("c")
    /\ stack = << IntV(2) >>

UndefinedNameFailed ==
    /\ ExecutedByName("none")
    /\ status = "error"


\* ------------------------------------------- specification: buffer cursor

MaxSize == 3

\* The buffer the operations act on is the first cell of the heap.
TheBuffer == heap[1].items

\* One operation of the Buffer trait applied to the buffer; a panic ends the
\* process and leaves the buffer as it was.
BufferStep(op, r, val) ==
    /\ SetCur([Cur EXCEPT !.heap = IF r.kind = "ok"
                                   THEN << BufferCell(r.bb) >> ELSE @])
    /\ status' = IF r.kind = "ok" THEN "running" ELSE "panicked"
    /\ last' = [Last(op, NoInstr, r.kind, NoErr, Cur, frames, NoErr)
                EXCEPT !.val = val]
    /\ UNCHANGED << frames, pair >>

\* ByteBuffer::new
NewBuffer ==
    /\ status = "running"
    /\ \E size \in 0..MaxSize :
         BufferStep("new",
                    BufferOk(ByteBuffer([i \in 1..size |-> 0], 0), 0),
                    IntV(size))

\* Buffer::resize; overflow_checks is how the build treats new_size - 1.
ResizeBuffer ==
    /\ status = "running"
    /\ \E new_size \in 0..MaxSize, overflow_checks \in BOOLEAN :
         BufferStep("resize", resize(TheBuffer, new_size, overflow_checks),
                    IntV(new_size))

SetPosition ==
    /\ status = "running"
    /\ \E position \in 0..(MaxSize + 1) :
         BufferStep("set_position", set_position(TheBuffer, position),
                    IntV(position))

WriteInt ==
    /\ status = "running"
    /\ \E byte_size \in {1, 2} :
         BufferStep("write_int", write_int(TheBuffer, byte_size, 1),
                    IntV(byte_size))

ReadInt ==
    /\ status = "running"
    /\ \E byte_size \in {1, 2} :
         BufferStep("read_int", read_int(TheBuffer, byte_size, FALSE),
                    IntV(byte_size))

InitCursor ==
    \E size \in 0..MaxSize :
        HostCalls([NewInterpreter EXCEPT
                      !.heap = << BufferCell(ByteBuffer([i \in 1..size |-> 0],
                                                        0)) >>])

NextCursor ==
    \/ NewBuffer
    \/ ResizeBuffer
    \/ SetPosition
    \/ WriteInt
    \/ ReadInt

SpecCursor == InitCursor /\ [][NextCursor]_vars

\* ------------------------------------------------ properties: buffer cursor

\* The operations that completed kept the cursor inside the buffer, apart
\* from resize.
OtherOperationsKeepCursor ==
    (last.op \in {"new", "set_position", "write_int", "read_int"}
     /\ last.kind = "ok"
     /\ last.pre.heap[1].items.current_position
            <= Len(last.pre.heap[1].items.buffer))
        => TheBuffer.current_position <= Len(TheBuffer.buffer)

\* C39: after any sequence of creations, resizes, set_positions, reads and
\* writes the cursor of the buffer lies between 0 and the buffer's length.
C39_CursorWithinBuffer ==
    /\ 0 <= TheBuffer.current_position
    /\ TheBuffer.current_position <= Len(TheBuffer.buffer)

\* A buffer was resized to 0 by a build without overflow checks: the cursor
\* wrapped to the largest usize.
ResizedToZeroWrapped ==
    /\ last.op = "resize"
    /\ last.kind = "ok"
    /\ last.val = IntV(0)
    /\ Len(TheBuffer.buffer) = 0
    /\ TheBuffer.current_position = UsizeMod - 1

\* The same resize in a build with overflow checks panicked.
ResizedToZeroPanicked ==
    /\ last.op = "resize"
    /\ last.val = IntV(0)
    /\ status = "panicked"

\* A resize below the cursor to a size above 0 moved the cursor to the last
\* byte.
ResizedBelowCursor ==
    /\ last.op = "resize"
    /\ last.kind = "ok"
    /\ last.val # IntV(0)
    /\ last.pre.heap[1].items.current_position > Len(TheBuffer.buffer)
    /\ TheBuffer.current_position = Len(TheBuffer.buffer) - 1

\* A resize to the buffer's own size with the cursor at the end moved the
\* cursor back by one byte.
ResizedToSameSize ==
    /\ last.op = "resize"
    /\ last.kind = "ok"
    /\ Len(last.pre.heap[1].items.buffer) = Len(TheBuffer.buffer)
    /\ last.pre.heap[1].items.current_position = Len(TheBuffer.buffer)
    /\ TheBuffer.current_position = Len(TheBuffer.buffer) - 1

\* Every resize that completed to a size above 0 left the cursor inside the
\* buffer.
ResizeAboveZeroKeepsCursor ==
    (last.op = "resize" /\ last.kind = "ok" /\ last.val # IntV(0)
     /\ last.pre.heap[1].items.current_position
            <= Len(last.pre.heap[1].items.buffer))
        => TheBuffer.current_position <= Len(TheBuffer.buffer)

====
